---- MODULE Spec2Model ----
(***************************************************************************)
(* A model of the passim daemon (src/src/passim-server.c and its helpers): *)
(* the item store, the owned data directory, the Avahi entry group, the    *)
(* HTTPS request handler and the D-Bus Publish / Unpublish calls.          *)
(*                                                                         *)
(* Text is text: hashes, basenames, file names and service subtypes are    *)
(* strings, cut and joined as the code cuts and joins them.  Time is in    *)
(* seconds.  guint32 values are naturals;  G_MAXUINT32 is the largest      *)
(* integer of the checker and stands for 2^32-1.                           *)
(***************************************************************************)
EXTENDS Integers, Sequences, FiniteSets, TLC

\* ------------------------------------------------------------------ bounds
\* the clock stops advancing after this many seconds
MaxTime == 2
\* serves of one item beyond this share_count are not explored
MaxShares == 3
\* requests that may wait for a discovery lookup at the same time
MaxLookups == 1
\* failing system calls (file deletion, xattr and Avahi calls) in one run
MaxFaults == 2
\* the same, in the specifications that look at one feature
FewFaults == 1
\* entries one browse collects
MaxItems == 2
\* signals the fallback subscription of one resolver buffers
MaxSignals == 2
MaxRegisters == 3

\* ------------------------------------------------------- program constants
G_MAXUINT32 == 2147483647
\* g_timeout_add_seconds(60 * 60, ...): the period of the age sweep.  The
\* model runs the timer at a period of PollItemAge seconds.
PollItemAge == 2
\* strlen(hash) != 64
HashLen == 64
\* g_strndup(hash, 60)
TruncLen == 60
\* the port of passim.conf, which the peers are resolved to
Port == 27500
\* SOUP_STATUS_MOVED_TEMPORARILY
SOUP_STATUS_MOVED_TEMPORARILY == 302

NULL == "NULL"

PASSIM_STATUS_STARTING == "STARTING"
PASSIM_STATUS_LOADING == "LOADING"
PASSIM_STATUS_DISABLED_METERED == "DISABLED_METERED"
PASSIM_STATUS_RUNNING == "RUNNING"

PASSIM_ITEM_FLAG_DISABLED == "DISABLED"
PASSIM_ITEM_FLAG_NEXT_REBOOT == "NEXT_REBOOT"

\* ------------------------------------------------------------------ strings
\* "0123456789abcdef"
HexChars == <<"0", "1", "2", "3", "4", "5", "6", "7", "8", "9", "a", "b", "c", "d", "e", "f">>
\* the ASCII characters of the model; any other character is beyond 0x7f
AsciiChars ==
    {HexChars[i] : i \in 1..16} \cup {"g", "x", "y", "s", "h", "-", "_", ".", "/", "="}
BasenameA == "a"
BasenameB == "b"
BasenameBad == "a/b"
PASSIM_SERVER_TYPE == "_cache._tcp"

\* the i-th character of s
CharAt(s, i) == SubSeq(s, i, i)

\* g_strstr_len(s, -1, "/") != NULL
ContainsSlash(s) == \E i \in 1..Len(s) : CharAt(s, i) = "/"

\* g_str_is_ascii()
IsAscii(s) == \A i \in 1..Len(s) : CharAt(s, i) \in AsciiChars

\* g_strndup(s, n)
Strndup(s, n) == SubSeq(s, 1, IF Len(s) < n THEN Len(s) ELSE n)

\* ------------------------------------------------------------------ content
\* the byte streams: what a publisher hands in, and the contributed file
Blobs == {<<1>>, <<2>>, <<1, 1>>, <<1, 1, 1>>}

RECURSIVE ByteSum(_)
ByteSum(bytes) == IF bytes = <<>> THEN 0 ELSE Head(bytes) + 3 * ByteSum(Tail(bytes))

\* g_compute_checksum_for_bytes(G_CHECKSUM_SHA256, ...): 64 lowercase hex
\* characters, a different digest for every byte stream of the model
RECURSIVE HexDigest(_, _)
HexDigest(bytes, i) ==
    IF i > HashLen THEN ""
    ELSE HexChars[((ByteSum(bytes) * i + Len(bytes)) % 16) + 1] \o HexDigest(bytes, i + 1)

\* the digests of the byte streams of the model, computed once
Digests == [bytes \in Blobs |-> HexDigest(bytes, 1)]

Sha256(bytes) == Digests[bytes]

\* passim_avahi_truncate_hash()
passim_avahi_truncate_hash(hash) == Strndup(hash, TruncLen)

\* passim_avahi_build_subtype_for_hash(): "_%s._sub.%s"
passim_avahi_build_subtype_for_hash(hash) ==
    "_" \o passim_avahi_truncate_hash(hash) \o "._sub." \o PASSIM_SERVER_TYPE

\* a path: the directory ("data": the owned data directory self->root,
\* "pkg": a directory named by a passim.d key file) and the file name
Path(dir, name) == [dir |-> dir, name |-> name]

\* g_strdup_printf("%s-%s", hash, basename) under the owned data directory
HashedFilename(hash, basename) == Path("data", hash \o "-" \o basename)

\* index of the first "-" of a name, 0 when there is none
FirstDash(name) ==
    IF \E i \in 1..Len(name) : CharAt(name, i) = "-"
    THEN CHOOSE i \in 1..Len(name) :
             CharAt(name, i) = "-" /\ \A j \in 1..(i - 1) : CharAt(name, j) # "-"
    ELSE 0

\* ------------------------------------------------------------------- state
VARIABLES
    pc,                   \* where main() is: "main", "listening", "loop", "exited"
    status,               \* self->status
    items,                \* self->items: hash -> item
    files,                \* the file system: path -> file (bytes and xattrs)
    metered,              \* g_network_monitor_get_network_metered()
    eg,                   \* the Avahi entry group behind self->avahi->proxy_eg
    now,                  \* the wall clock, seconds
    poll_due,             \* when the poll_item_age_id timer fires next
    sysconfpkg_rescan_id, \* self->sysconfpkg_rescan_id
    timeouts,             \* the pending 500 ms timeouts: the ms each has waited
    lookups,              \* paused requests waiting for passim_avahi_find_async()
    reply,                \* the answer of the handler that ran last
    faults,               \* system calls that may still fail
    find,                 \* the passim_avahi_find_async() of each paused request
    stale,                \* a D-Bus reply is due whose GTask was freed
    reg                   \* the registers of the main loop, call by call

vars == <<pc, status, items, files, metered, eg, now, poll_due,
          sysconfpkg_rescan_id, timeouts, lookups, reply, faults, find, stale, reg>>

\* passim_item_has_flag()
passim_item_has_flag(item, flag) == flag \in item.flags

\* passim_item_get_age(): seconds since ctime
passim_item_get_age(item, t) == t - item.ctime

\* the items as GetItems returns them (g_hash_table_get_values)
GetItems == {items[h] : h \in DOMAIN items}

\* g_hash_table_insert(): a new entry, or the entry of that key replaced
HashTableInsert(tab, key, val) ==
    [k \in DOMAIN tab \cup {key} |-> IF k = key THEN val ELSE tab[k]]

\* g_hash_table_remove()
HashTableRemove(tab, key) == [k \in DOMAIN tab \ {key} |-> tab[k]]

\* ------------------------------------------------------------ Avahi client
\* The entry group of the Avahi daemon.  Reset empties it, AddService and
\* AddServiceSubtype add entries and Commit announces them.  Entries that
\* were never committed are not announced and every register starts with
\* Reset, so the model keeps the subtypes of a committed group only.  A call
\* that fails leaves the group as it was before the call.
EgEmpty == [committed |-> FALSE, subtypes |-> {}]

\* what the LAN sees: the subtypes of the committed group
Advertised == IF eg.committed THEN eg.subtypes ELSE {}

\* The outcomes of one register: no call fails ("none"), or the named call
\* fails and the register stops there.
RegOutcomes == {"none", "Reset", "AddService", "AddServiceSubtype", "Commit"}

\* a D-Bus call on the entry group: the method and its subtype argument
Call(method, subtype) == [method |-> method, subtype |-> subtype]

\* the AddServiceSubtype calls of the loop over keys, one per key, in the
\* order of the GStrv (that of the hash table, here some order)
RECURSIVE SubtypeCalls(_)
SubtypeCalls(keys) ==
    IF keys = {} THEN <<>>
    ELSE LET k == CHOOSE k \in keys : TRUE IN
         <<Call("AddServiceSubtype", passim_avahi_build_subtype_for_hash(k))>>
             \o SubtypeCalls(keys \ {k})

\* passim_avahi_register(): Reset, AddService, AddServiceSubtype per key,
\* Commit; calls is what it sent to the entry group
passim_avahi_register(g, keys, out) ==
    LET head == <<Call("Reset", NULL), Call("AddService", NULL)>> IN
    IF out = "Reset" THEN [ok |-> FALSE, eg |-> g, calls |-> SubSeq(head, 1, 1)]
    ELSE IF out = "AddService" THEN [ok |-> FALSE, eg |-> EgEmpty, calls |-> head]
    ELSE IF out = "AddServiceSubtype" /\ keys # {}
         THEN [ok |-> FALSE, eg |-> EgEmpty,
               calls |-> head \o SubSeq(SubtypeCalls(keys), 1, 1)]
    ELSE IF out = "Commit"
         THEN [ok |-> FALSE, eg |-> EgEmpty,
               calls |-> head \o SubtypeCalls(keys) \o <<Call("Commit", NULL)>>]
    ELSE [ok |-> TRUE,
          eg |-> [committed |-> TRUE,
                  subtypes |-> {passim_avahi_build_subtype_for_hash(k) : k \in keys}],
          calls |-> head \o SubtypeCalls(keys) \o <<Call("Commit", NULL)>>]

\* passim_avahi_unregister(): clears the entry group
passim_avahi_unregister(g) == [ok |-> TRUE, eg |-> EgEmpty]

\* a list of keys that holds the DISABLED items too
AvahiKeysAll(its) == {its[h].hash : h \in DOMAIN its}

\* the GStrv of hashes passim_server_avahi_register() builds: DISABLED omitted
AvahiKeys(its) ==
    {its[h].hash : h \in {k \in DOMAIN its :
                              ~passim_item_has_flag(its[k], PASSIM_ITEM_FLAG_DISABLED)}}

\* a register that does not ask the network monitor: publishes on a metered
\* network as on any other
AvahiRegisterAnyNetwork(st, its, met, g, out) ==
    IF st = PASSIM_STATUS_STARTING THEN [ok |-> FALSE, status |-> st, eg |-> g, calls |-> <<>>]
    ELSE LET r == passim_avahi_register(g, AvahiKeys(its), out) IN
         [ok |-> r.ok,
          status |-> IF r.ok THEN PASSIM_STATUS_RUNNING ELSE st,
          eg |-> r.eg, calls |-> r.calls]

\* passim_server_avahi_register(): the new status and entry group, and the
\* calls passim_avahi_register() sent
passim_server_avahi_register(st, its, met, g, out) ==
    IF st = PASSIM_STATUS_STARTING THEN [ok |-> FALSE, status |-> st, eg |-> g, calls |-> <<>>]
    ELSE IF met THEN
        LET r == passim_avahi_unregister(g) IN
        [ok |-> r.ok, status |-> PASSIM_STATUS_DISABLED_METERED, eg |-> r.eg, calls |-> <<>>]
    ELSE
        LET r == passim_avahi_register(g, AvahiKeys(its), out) IN
        [ok |-> r.ok,
         status |-> IF r.ok THEN PASSIM_STATUS_RUNNING ELSE st,
         eg |-> r.eg, calls |-> r.calls]

\* ------------------------------------------------------------- item store
\* what one passim_server_delete_item() meets: nothing fails, g_file_delete()
\* fails, or a call of the register that follows fails
DelOutcomes == RegOutcomes \cup {"g_file_delete"}

\* a deletion that drops the entry and registers, and leaves the file
DeleteItemKeepFile(st, its, fs, met, g, item, out) ==
    LET its2 == HashTableRemove(its, item.hash)
        r == passim_server_avahi_register(st, its2, met, g, out) IN
    [ok |-> r.ok, status |-> r.status, items |-> its2, files |-> fs, eg |-> r.eg]

\* passim_server_delete_item(): delete the file, drop the entry, register.
\* g_file_delete() fails when the file is absent, and may fail otherwise.
passim_server_delete_item(st, its, fs, met, g, item, out) ==
    IF out = "g_file_delete" \/ item.file \notin DOMAIN fs
    THEN [ok |-> FALSE, status |-> st, items |-> its, files |-> fs, eg |-> g]
    ELSE LET its2 == HashTableRemove(its, item.hash)
             r == passim_server_avahi_register(st, its2, met, g, out) IN
         [ok |-> r.ok, status |-> r.status, items |-> its2,
          files |-> HashTableRemove(fs, item.file), eg |-> r.eg]

\* --------------------------------------------------------------- the files
\* value of an integer xattr that is not set
NoXattr == -1

\* passim_get_boot_time(): the btime line of /proc/stat of this boot
BootTimeNow == "btime-now"

\* a file as g_file_set_contents() creates it: no xattr yet
NewFile(bytes, t) ==
    [bytes |-> bytes, ctime |-> t, max_age |-> NoXattr, share_limit |-> NoXattr,
     cmdline |-> "", boot_time |-> "", checksum |-> ""]

\* passim_xattr_get_uint32(): the fallback when unset; G_MAXUINT32 is the error
passim_xattr_get_uint32(value, value_fallback) ==
    IF value = NoXattr THEN value_fallback ELSE value

\* passim_server_libdir_add(): the item of a file of the owned data directory
passim_server_libdir_add(fs, path, io_ok) ==
    LET f == fs[path]
        d == FirstDash(path.name)
        max_age == passim_xattr_get_uint32(f.max_age, 24 * 60 * 60)
        share_limit == passim_xattr_get_uint32(f.share_limit, 5)
        disabled == f.boot_time = BootTimeNow
    IN  IF d = 0 \/ ~io_ok \/ max_age = G_MAXUINT32 \/ share_limit = G_MAXUINT32
        THEN [ok |-> FALSE]
        ELSE [ok |-> TRUE,
              item |-> [hash |-> Sha256(f.bytes),
                        basename |-> SubSeq(path.name, d + 1, Len(path.name)),
                        cmdline |-> f.cmdline,
                        max_age |-> max_age,
                        share_limit |-> share_limit,
                        share_count |-> 0,
                        flags |-> IF disabled
                                  THEN {PASSIM_ITEM_FLAG_NEXT_REBOOT, PASSIM_ITEM_FLAG_DISABLED}
                                  ELSE {},
                        ctime |-> f.ctime,
                        file |-> path]]

\* the files of a directory
DirFiles(fs, dir) == {p \in DOMAIN fs : p.dir = dir}

\* the sequences that list every element of a set once
Orders(S) == {o \in [1..Cardinality(S) -> S] : \A i, j \in DOMAIN o : o[i] = o[j] => i = j}

\* passim_server_libdir_scan(): every file of the directory, in the order
\* g_dir_read_name() lists them; the first failure ends the scan
RECURSIVE passim_server_libdir_scan(_, _, _, _)
passim_server_libdir_scan(its, fs, order, bad) ==
    IF order = <<>> THEN [ok |-> TRUE, items |-> its]
    ELSE LET r == passim_server_libdir_add(fs, Head(order), Head(order) \notin bad) IN
         IF ~r.ok THEN [ok |-> FALSE, items |-> its]
         ELSE passim_server_libdir_scan(HashTableInsert(its, r.item.hash, r.item),
                                        fs, Tail(order), bad)

\* passim_server_sysconfpkgdir_add(): the item of a contributed file; the
\* cached user.checksum.sha256 is used when set, and saved when not
passim_server_sysconfpkgdir_add(fs, path, xattr_ok) ==
    LET f == fs[path]
        hash == IF f.checksum # "" THEN f.checksum ELSE Sha256(f.bytes)
    IN  [item |-> [hash |-> hash,
                   basename |-> path.name,
                   cmdline |-> NULL,
                   max_age |-> G_MAXUINT32,
                   share_limit |-> G_MAXUINT32,
                   share_count |-> 0,
                   flags |-> {},
                   ctime |-> f.ctime,
                   file |-> path],
         files |-> IF f.checksum = "" /\ xattr_ok
                   THEN [fs EXCEPT ![path].checksum = hash]
                   ELSE fs]

\* the items passim_server_sysconfpkgdir_scan() takes for contributed ones
IsSysconfpkgItem(item) ==
    /\ item.cmdline = NULL
    /\ item.max_age = G_MAXUINT32
    /\ item.share_limit = G_MAXUINT32

\* passim_server_sysconfpkgdir_scan_path(): a file that cannot be opened
\* ("eperm") is skipped, any other failure ("error") ends the scan
RECURSIVE passim_server_sysconfpkgdir_scan_path(_, _, _, _)
passim_server_sysconfpkgdir_scan_path(its, fs, order, io) ==
    IF order = <<>> THEN [ok |-> TRUE, items |-> its, files |-> fs]
    ELSE LET p == Head(order) IN
         IF io[p] = "eperm"
         THEN passim_server_sysconfpkgdir_scan_path(its, fs, Tail(order), io)
         ELSE IF io[p] = "error" THEN [ok |-> FALSE, items |-> its, files |-> fs]
         ELSE LET r == passim_server_sysconfpkgdir_add(fs, p, io[p] = "ok") IN
              passim_server_sysconfpkgdir_scan_path(
                  HashTableInsert(its, r.item.hash, r.item), r.files, Tail(order), io)

\* what a contributed file can do to its scan: added and checksum saved,
\* added but the xattr not saved, skipped, or the scan fails
ScanIo == {"ok", "noxattr", "eperm", "error"}

\* passim_server_sysconfpkgdir_scan(): drop the contributed items, then add
\* the files of the contributed directory again
passim_server_sysconfpkgdir_scan(its, fs, order, io) ==
    LET kept == [h \in {k \in DOMAIN its : ~IsSysconfpkgItem(its[k])} |-> its[h]] IN
    passim_server_sysconfpkgdir_scan_path(kept, fs, order, io)

\* ---------------------------------------------------------------- age sweep
\* an age test that is late by one second
IsExpiredLate(item, t) ==
    /\ item.max_age # G_MAXUINT32
    /\ passim_item_get_age(item, t) > item.max_age + 1

\* age > max_age, unless max_age is G_MAXUINT32
IsExpired(item, t) ==
    /\ item.max_age # G_MAXUINT32
    /\ passim_item_get_age(item, t) > item.max_age

\* passim_server_check_item_age(): the items in the order of the list, each
\* expired one handed to passim_server_delete_item(); failed collects the
\* hashes of the deletions that ended with the warning "failed: ..."
RECURSIVE passim_server_check_item_age(_, _, _, _, _)
passim_server_check_item_age(S, met, t, order, outs) ==
    IF order = <<>> THEN S
    ELSE LET item == S.items[Head(order)]
             r == passim_server_delete_item(S.status, S.items, S.files, met, S.eg, item,
                                            outs[Head(order)])
         IN  passim_server_check_item_age(
                 IF IsExpired(item, t)
                 THEN [status |-> r.status, items |-> r.items, files |-> r.files,
                       eg |-> r.eg,
                       failed |-> IF r.ok THEN S.failed ELSE S.failed \cup {item.hash}]
                 ELSE S,
                 met, t, Tail(order), outs)

\* the hashes of the expired items
Expired(its, t) == {h \in DOMAIN its : IsExpired(its[h], t)}

\* the failing calls among the outcomes outs chosen for the items of S
RECURSIVE FaultCount(_, _)
FaultCount(outs, S) ==
    IF S = {} THEN 0
    ELSE LET h == CHOOSE x \in S : TRUE IN
         (IF outs[h] = "none" THEN 0 ELSE 1) + FaultCount(outs, S \ {h})

\* one more failing call, when out is a failure
Charge(out) == IF out \in {"none", "ok"} THEN faults ELSE faults - 1

\* ------------------------------------------------------------------- start
\* "fwupd": the basename of the publisher's command line
Cmdline == "fwupd"

\* a file left in the owned data directory by an earlier run of the daemon
OldFile(bytes, max_age, share_limit, boot_time) ==
    [NewFile(bytes, 0) EXCEPT !.max_age = max_age, !.share_limit = share_limit,
                              !.cmdline = Cmdline, !.boot_time = boot_time]

\* the name of the one contributed file: "c"
PkgName == "c"

\* the file systems the daemon may start with: nothing, or one file that an
\* earlier run published
InitFiles ==
    {<<>>,
     [p \in {HashedFilename(Sha256(<<1>>), BasenameA)} |-> OldFile(<<1>>, 1, 2, "")]}

NoReply == [op |-> "none"]

\* no register runs, none has run, and no source of the main loop is ready
RegIdle == [ready |-> {}, running |-> <<>>, next |-> 1, log |-> <<>>]

\* the daemon as main() finds it over one of the file systems of fss, with
\* budget failing calls ahead
StartFrom(budget, fss) ==
    /\ pc = "main"
    /\ status = PASSIM_STATUS_STARTING
    /\ items = <<>>
    /\ files \in fss
    /\ metered \in BOOLEAN
    /\ eg = EgEmpty
    /\ now = 0
    /\ poll_due = PollItemAge
    /\ sysconfpkg_rescan_id = 0
    /\ timeouts = <<>>
    /\ lookups = {}
    /\ reply = NoReply
    /\ faults = budget
    /\ find = <<>>
    /\ stale = FALSE
    /\ reg = RegIdle

Start(budget) == StartFrom(budget, InitFiles)

Init == Start(MaxFaults)
\* the same, for the specifications that look at one feature
InitFew == Start(FewFaults)

\* the steps of main() that can fail, besides the two scans and the first
\* register: passim_config_load(), passim_server_start_dbus(),
\* passim_server_sysconfpkgdir_watch(), passim_avahi_connect(),
\* passim_server_load_tls_certificate() and soup_server_listen_all()
MainFailures == {"config", "dbus", "watch", "avahi_connect", "tls", "listen"}

\* the first step of main() that fails, in the order of main(); "none" when
\* none does
MainFailed(cause, l_ok, s_ok) ==
    IF cause \in {"config", "dbus"} THEN cause
    ELSE IF ~l_ok THEN "libdir_scan"
    ELSE IF cause = "watch" THEN cause
    ELSE IF ~s_ok THEN "sysconfpkgdir_scan"
    ELSE cause

\* main() up to soup_server_listen_all(): the scans of the owned and of the
\* contributed directory, the first age check (its registers are refused, the
\* status being STARTING), then LOADING.  Any failure ends the daemon.
MainStartup ==
    /\ pc = "main"
    /\ \E cause \in MainFailures \cup {"none"}, bad \in SUBSET DirFiles(files, "data"),
          lorder \in Orders(DirFiles(files, "data")),
          porder \in Orders(DirFiles(files, "pkg")),
          io \in [DirFiles(files, "pkg") -> ScanIo] :
        LET l == passim_server_libdir_scan(items, files, lorder, bad)
            s == passim_server_sysconfpkgdir_scan(l.items, files, porder, io)
            failed == MainFailed(cause, l.ok, s.ok)
        IN  IF failed # "none"
            THEN /\ pc' = "exited"
                 /\ items' = IF failed \in {"config", "dbus"} THEN items
                             ELSE IF failed \in {"libdir_scan", "watch"} THEN l.items
                             ELSE s.items
                 /\ files' = IF failed \in {"config", "dbus", "libdir_scan", "watch"}
                             THEN files ELSE s.files
                 /\ reply' = [op |-> "exit", cause |-> failed]
                 /\ UNCHANGED <<status, eg>>
            ELSE \E order \in Orders(Expired(s.items, now)),
                    outs \in [Expired(s.items, now) -> {"none", "g_file_delete"}] :
                 LET c == passim_server_check_item_age(
                              [status |-> status, items |-> s.items,
                               files |-> s.files, eg |-> eg, failed |-> {}],
                              metered, now, order, outs)
                 IN  /\ pc' = "listening"
                     /\ status' = PASSIM_STATUS_LOADING
                     /\ items' = c.items
                     /\ files' = c.files
                     /\ eg' = c.eg
                     /\ UNCHANGED reply
    /\ UNCHANGED <<metered, now, poll_due, sysconfpkg_rescan_id, timeouts, lookups, find, stale, faults, reg>>

\* main(): the first passim_server_avahi_register(); failure ends the daemon
MainRegister ==
    /\ pc = "listening"
    /\ \E out \in RegOutcomes :
        LET r == passim_server_avahi_register(status, items, metered, eg, out) IN
        /\ pc' = IF r.ok THEN "loop" ELSE "exited"
        /\ status' = r.status
        /\ eg' = r.eg
        /\ reply' = IF r.ok THEN reply ELSE [op |-> "exit", cause |-> "register"]
    /\ UNCHANGED <<items, files, metered, now, poll_due, sysconfpkg_rescan_id, timeouts,
                   lookups, find, stale, faults, reg>>

\* one second passes; neither the age timer nor the 500 ms rescan timer is
\* overrun
Tick ==
    /\ pc = "loop"
    /\ now < MaxTime
    /\ now < poll_due
    /\ sysconfpkg_rescan_id = 0 /\ timeouts = <<>>
    /\ now' = now + 1
    /\ UNCHANGED <<pc, status, items, files, metered, eg, poll_due,
                   sysconfpkg_rescan_id, timeouts, lookups, find, stale, reply, faults, reg>>

\* passim_server_check_item_age_cb(): the timer of main(), G_SOURCE_CONTINUE
CheckItemAgeCb ==
    /\ pc = "loop"
    /\ now = poll_due
    /\ \E order \in Orders(Expired(items, now)),
          outs \in [Expired(items, now) -> DelOutcomes] :
        LET c == passim_server_check_item_age(
                     [status |-> status, items |-> items, files |-> files, eg |-> eg,
                      failed |-> {}],
                     metered, now, order, outs)
        IN  /\ FaultCount(outs, DOMAIN outs) <= faults
            /\ faults' = faults - FaultCount(outs, DOMAIN outs)
            /\ status' = c.status
            /\ items' = c.items
            /\ files' = c.files
            /\ eg' = c.eg
            /\ reply' = [op |-> "sweep", expired |-> Expired(items, now),
                         failed |-> c.failed]
    /\ poll_due' = now + PollItemAge
    /\ UNCHANGED <<pc, metered, now, sysconfpkg_rescan_id, timeouts, lookups, find, stale, reg>>

\* the default connection becomes metered or unmetered:
\* passim_server_network_monitor_metered_changed_cb()
MeteredChangedCb ==
    /\ pc = "loop"
    /\ metered' = ~metered
    /\ \E out \in RegOutcomes :
        LET r == passim_server_avahi_register(status, items, metered', eg, out) IN
        /\ Charge(out) >= 0
        /\ faults' = Charge(out)
        /\ status' = r.status
        /\ eg' = r.eg
        /\ reply' = [op |-> "metered", ok |-> r.ok]
    /\ UNCHANGED <<pc, items, files, now, poll_due, sysconfpkg_rescan_id, timeouts, lookups, find, stale, reg>>

\* ------------------------------------------------------- discovery lookups
\* passim_avahi_find_async(): one browse for the subtype of the hash, then
\* one resolve for every entry the browse returned, one after the other.
\* The record of a lookup holds the PassimAvahiFindHelper and the helper of
\* the operation that is running: op ("browser" or "resolver"), call (the
\* call of the chain ServiceBrowserPrepare or ServiceResolverPrepare, proxy
\* creation, Start whose reply is due; "none" after Start), object_path (the
\* handle the daemon gave), signal_id (the g-signal handler is connected),
\* free (the Free calls whose reply is due), items (the entries collected,
\* then the entries still to resolve), addresses (the addresses resolved),
\* and for a resolver service, address, subscription_id (the fallback
\* subscription is active) and signals (what the fallback has buffered).

\* AVAHI_LOOKUP_RESULT_LOCAL
AVAHI_LOOKUP_RESULT_LOCAL == "LOCAL"

\* PassimAvahiService: the name and the flags of an entry
Service(name, flags) == [name |-> name, flags |-> flags]
NoService == Service(NULL, {})

\* the peers of the LAN that may hold the hash: two other hosts and this one
Peer1 == Service("Passim-0001", {})
Peer2 == Service("Passim-0002", {})
Self == Service("Passim-0000", {AVAHI_LOOKUP_RESULT_LOCAL})
Services == {Peer1, Peer2, Self}

\* the address the discovery daemon resolves a service to
HostOf(service) ==
    CASE service = Peer1 -> "10.0.0.2"
      [] service = Peer2 -> "10.0.0.3"
      [] OTHER -> "10.0.0.1"

\* "%i": the decimal digits of a number
RECURSIVE Itoa(_)
Itoa(n) == IF n < 10 THEN HexChars[n + 1] ELSE Itoa(n \div 10) \o HexChars[(n % 10) + 1]

\* g_socket_address_get_family() == G_SOCKET_FAMILY_IPV6
IsIpv6(host) == \E i \in 1..Len(host) : CharAt(host, i) = ":"

\* passim_avahi_service_resolver_signal(), "Found": "[%s]:%i" or "%s:%i"
FoundAddress(host, port) ==
    IF IsIpv6(host) THEN "[" \o host \o "]:" \o Itoa(port) ELSE host \o ":" \o Itoa(port)

\* the object paths of the model: that of a browser, that of the resolver
\* a lookup runs while n entries are still to resolve, and that of a resolver
\* of another lookup
BrowserPath == "/Client0/ServiceBrowser1"
ResolverPath(n) == "/Client0/ServiceResolver" \o Itoa(n)
OtherPath == "/Client1/ServiceResolver1"

\* a signal of the discovery daemon
Signal(object_path, signal_name, service, host, port) ==
    [object_path |-> object_path, signal_name |-> signal_name, service |-> service,
     host |-> host, port |-> port]

\* the signals a browser may get
BrowserSignals ==
    {Signal(BrowserPath, "ItemNew", s, "", 0) : s \in Services}
    \cup {Signal(BrowserPath, n, NoService, "", 0) : n \in {"CacheExhausted", "AllForNow", "Failure"}}

\* the signals the resolver of helper h may get for its own object
OwnSignals(h) ==
    {Signal(ResolverPath(Len(h.items)), "Found", h.service, HostOf(h.service), Port),
     Signal(ResolverPath(Len(h.items)), "Failure", h.service, "", 0)}

\* the signals of another resolver, which the fallback subscription gets too
OtherSignals == {Signal(OtherPath, "Found", Self, HostOf(Self), Port)}

\* the lookup goes on with helper h
Go(h) == [returned |-> FALSE, helper |-> h, stale |-> FALSE]

\* the GTask of the lookup returns: the addresses, or with none the error.
\* stale: the GTask of the operation is freed while a reply for it is due
Return(addresses, is_stale) == [returned |-> TRUE, addresses |-> addresses, stale |-> is_stale]

\* passim_avahi_find_async(): the browse is prepared
passim_avahi_find_async(hash) ==
    [op |-> "browser",
     subtype |-> passim_avahi_build_subtype_for_hash(passim_avahi_truncate_hash(hash)),
     call |-> "Prepare", object_path |-> NULL, signal_id |-> FALSE, free |-> 0,
     items |-> <<>>, addresses |-> <<>>,
     service |-> NoService, address |-> NULL, subscription_id |-> FALSE, signals |-> <<>>]

\* passim_avahi_service_resolver_async(): the fallback subscription is made,
\* then ServiceResolverPrepare is called
passim_avahi_service_resolver_async(h, service) ==
    [h EXCEPT !.op = "resolver", !.service = service, !.call = "Prepare",
              !.object_path = NULL, !.signal_id = FALSE, !.free = 0, !.address = NULL,
              !.subscription_id = TRUE, !.signals = <<>>]

\* passim_avahi_service_resolve_next(): the addresses (or "cannot find hash")
\* when no entry is left, the resolver of the first entry otherwise
passim_avahi_service_resolve_next(h) ==
    IF h.items = <<>> THEN Return(h.addresses, FALSE)
    ELSE Go(passim_avahi_service_resolver_async([h EXCEPT !.items = Tail(@)], Head(h.items)))

\* an address is in the list (g_ptr_array_find_with_equal_func)
HasAddress(addresses, address) == \E i \in 1..Len(addresses) : addresses[i] = address

\* passim_avahi_service_resolve_cb(): an error ends the lookup; an address
\* is added unless it is in the list, and the next entry is resolved
passim_avahi_service_resolve_cb(h, address) ==
    IF address = NULL THEN Return(<<>>, FALSE)
    ELSE passim_avahi_service_resolve_next(
             [h EXCEPT !.addresses = IF HasAddress(@, address) THEN @ ELSE Append(@, address)])

\* ---- the browser
\* passim_avahi_service_browser_free(): disconnect, then call Free
passim_avahi_service_browser_free(h) == [h EXCEPT !.signal_id = FALSE, !.free = @ + 1]

\* a signal handler that keeps the entries of this host too
BrowserItemNewKeepLocal(entries, service) == Append(entries, service)

\* passim_avahi_service_browser_signal_cb(), "ItemNew": the entries after it
BrowserItemNew(entries, service) ==
    IF AVAHI_LOOKUP_RESULT_LOCAL \in service.flags THEN entries ELSE Append(entries, service)

\* passim_avahi_service_browser_signal_cb()
passim_avahi_service_browser_signal_cb(h, signal) ==
    CASE signal.signal_name = "CacheExhausted" -> Go(h)
      [] signal.signal_name = "AllForNow" -> Go(passim_avahi_service_browser_free(h))
      [] signal.signal_name = "Failure" -> Return(<<>>, FALSE)
      [] signal.signal_name = "ItemNew" ->
            Go([h EXCEPT !.items = BrowserItemNew(@, signal.service)])
      [] OTHER -> Go(h)

\* ---- the resolver
\* passim_avahi_service_resolver_free(): disconnect, then call Free
passim_avahi_service_resolver_free(h) == [h EXCEPT !.signal_id = FALSE, !.free = @ + 1]

\* passim_avahi_service_resolver_signal(): Failure returns the error; Found
\* keeps the address and frees the resolver; r is what ran before, and after
\* the GTask has returned nothing more reaches the lookup
passim_avahi_service_resolver_signal(r, signal) ==
    IF r.returned THEN r
    ELSE CASE signal.signal_name = "Failure" ->
                  passim_avahi_service_resolve_cb(r.helper, NULL)
           [] signal.signal_name = "Found" ->
                  Go(passim_avahi_service_resolver_free(
                         [r.helper EXCEPT !.address = FoundAddress(signal.host, signal.port)]))
           [] OTHER -> r

\* the loop of passim_avahi_service_resolver_start_cb(): the buffered signals
\* of this resolver's object path, in the order they came
RECURSIVE Replay(_, _)
Replay(r, signals) ==
    IF signals = <<>> THEN r
    ELSE Replay(IF ~r.returned /\ Head(signals).object_path # r.helper.object_path
                THEN r
                ELSE passim_avahi_service_resolver_signal(r, Head(signals)),
                Tail(signals))

\* ------------------------------------------------------------ HTTPS requests
\* "sha256"
Sha256Key == "sha256"

\* the remote addresses of the model; a request may also have none
LoopbackAddr == "127.0.0.1"
RemoteAddr == "10.0.0.2"

\* passim_server_is_loopback()
passim_server_is_loopback(inet_addr) == inet_addr \in {"127.0.0.1", "::1"}

\* A query is the list g_strsplit(query, "&") gives, each element the list
\* g_strsplit(element, "=") gives.  The hash argument is the value of the
\* first element that has two parts and the key "sha256"; NULL when none.
RECURSIVE QueryHash(_)
QueryHash(request) ==
    IF request = <<>> THEN NULL
    ELSE IF Len(Head(request)) = 2 /\ Head(request)[1] = Sha256Key
         THEN Head(request)[2]
         ELSE QueryHash(Tail(request))

\* an element of the query as text: its parts joined by "="
RECURSIVE JoinParts(_)
JoinParts(kv) ==
    IF kv = <<>> THEN ""
    ELSE IF Len(kv) = 1 THEN kv[1]
    ELSE kv[1] \o "=" \o JoinParts(Tail(kv))

\* g_str_is_ascii(hash) && strlen(hash) == 64
HashWellFormed(hash) == IsAscii(hash) /\ Len(hash) = HashLen

\* the share limit test of passim_server_msg_send_item()
ShareLimitReached(item) ==
    item.share_limit > 0 /\ item.share_count >= item.share_limit

\* guint32 + 1
Inc32(n) == IF n = G_MAXUINT32 THEN 0 ELSE n + 1

\* a request: method, remote address (NULL: none), path and query
Request(method, remote, path, has_query, request) ==
    [method |-> method, remote |-> remote, path |-> path,
     has_query |-> has_query, request |-> request]

\* passim_server_msg_send_file(): the status it sets, by what the file does
\* ("ok", or g_mapped_file_new / g_file_query_info fails)
passim_server_msg_send_file(io) == IF io = "ok" THEN 200 ELSE 500

FileIo == {"ok", "map_fail", "info_fail"}

\* a handler that takes every method for GET
ClassifyAnyMethod(req) ==
    LET is_loopback == passim_server_is_loopback(req.remote)
        hash == QueryHash(req.request)
    IN  IF req.remote = NULL THEN [kind |-> "error", code |-> 400]
        ELSE IF req.path = "/"
             THEN IF ~is_loopback THEN [kind |-> "error", code |-> 403]
                  ELSE [kind |-> "index", code |-> 200]
        ELSE IF req.path \in {"/favicon.ico", "/style.css"}
             THEN IF ~is_loopback THEN [kind |-> "error", code |-> 403]
                  ELSE [kind |-> "asset", code |-> 200]
        ELSE IF ~req.has_query THEN [kind |-> "error", code |-> 400]
        ELSE IF hash = NULL THEN [kind |-> "error", code |-> 400]
        ELSE IF ~HashWellFormed(hash) THEN [kind |-> "error", code |-> 406]
        ELSE [kind |-> "item", code |-> 0]

\* passim_server_handler_cb() up to the lookup of the item: the answer of a
\* request that is decided without the store, or "item" when the store decides
Classify(req) ==
    LET is_loopback == passim_server_is_loopback(req.remote)
        hash == QueryHash(req.request)
    IN  IF req.method # "GET" THEN [kind |-> "error", code |-> 403]
        ELSE IF req.remote = NULL THEN [kind |-> "error", code |-> 400]
        ELSE IF req.path = "/"
             THEN IF ~is_loopback THEN [kind |-> "error", code |-> 403]
                  ELSE [kind |-> "index", code |-> 200]
        ELSE IF req.path \in {"/favicon.ico", "/style.css"}
             THEN IF ~is_loopback THEN [kind |-> "error", code |-> 403]
                  ELSE [kind |-> "asset", code |-> 200]
        ELSE IF ~req.has_query THEN [kind |-> "error", code |-> 400]
        ELSE IF hash = NULL THEN [kind |-> "error", code |-> 400]
        ELSE IF ~HashWellFormed(hash) THEN [kind |-> "error", code |-> 406]
        ELSE [kind |-> "item", code |-> 0]

\* the PassimServerContext of a paused request: msg, the hash argument and
\* as basename request[0], the first element of the query
Context(req) ==
    [msg |-> req, hash |-> QueryHash(req.request), basename |-> JoinParts(req.request[1])]

\* a handler that looks a missing hash up for any peer
ItemDecisionAnyPeer(its, hash, is_loopback) ==
    IF hash \in DOMAIN its
    THEN IF passim_item_has_flag(its[hash], PASSIM_ITEM_FLAG_DISABLED)
         THEN "locked" ELSE "send"
    ELSE "find"

\* what passim_server_handler_cb() does with a well-formed hash
ItemDecision(its, hash, is_loopback) ==
    IF hash \in DOMAIN its
    THEN IF passim_item_has_flag(its[hash], PASSIM_ITEM_FLAG_DISABLED)
         THEN "locked" ELSE "send"
    ELSE IF ~is_loopback THEN "forbidden" ELSE "find"

\* passim_server_handler_cb()
HandlerCb(req) ==
    /\ pc = "loop"
    /\ LET c == Classify(req)
           hash == QueryHash(req.request)
           d == ItemDecision(items, hash, passim_server_is_loopback(req.remote))
       IN
       \/ /\ c.kind \in {"error", "index"}
          /\ reply' = [op |-> "http", req |-> req, kind |-> c.kind, code |-> c.code]
          /\ UNCHANGED <<status, items, files, eg, lookups, find, stale, faults, reg>>
       \/ /\ c.kind = "asset"
          /\ \E io \in FileIo :
                reply' = [op |-> "http", req |-> req, kind |-> "asset",
                          code |-> passim_server_msg_send_file(io)]
          /\ UNCHANGED <<status, items, files, eg, lookups, find, stale, faults, reg>>
       \/ /\ c.kind = "item" /\ d = "locked"
          /\ reply' = [op |-> "http", req |-> req, kind |-> "error", code |-> 423]
          /\ UNCHANGED <<status, items, files, eg, lookups, find, stale, faults, reg>>
       \/ /\ c.kind = "item" /\ d = "forbidden"
          /\ reply' = [op |-> "http", req |-> req, kind |-> "error", code |-> 403]
          /\ UNCHANGED <<status, items, files, eg, lookups, find, stale, faults, reg>>
       \/ /\ c.kind = "item" /\ d = "find"
          /\ Cardinality(lookups) < MaxLookups
          /\ LET ctx == Context(req) IN
             /\ ctx \notin lookups
             /\ lookups' = lookups \cup {ctx}
             /\ find' = HashTableInsert(find, ctx, passim_avahi_find_async(hash))
          /\ reply' = [op |-> "http", req |-> req, kind |-> "find", code |-> 0]
          /\ UNCHANGED <<status, items, files, eg, faults, stale, reg>>
       \/ /\ c.kind = "item" /\ d = "send"
          /\ items[hash].share_count < MaxShares
                \/ items[hash].share_count >= G_MAXUINT32 - 1
          /\ \E io \in FileIo, out \in DelOutcomes :
             LET item == items[hash]
                 sent == [item EXCEPT !.share_count = Inc32(item.share_count)]
                 its2 == [items EXCEPT ![hash] = sent]
                 r == passim_server_delete_item(status, its2, files, metered, eg,
                                                sent, out)
                 n == (IF io = "ok" THEN 0 ELSE 1) + (IF out = "none" THEN 0 ELSE 1)
             IN  /\ io = "map_fail" \/ item.file \in DOMAIN files
                 /\ out = "none" \/ ShareLimitReached(sent)
                 /\ n <= faults
                 /\ faults' = faults - n
                 /\ reply' = [op |-> "http", req |-> req, kind |-> "item",
                              code |-> passim_server_msg_send_file(io),
                              deleted |-> IF ~ShareLimitReached(sent) THEN "no"
                                          ELSE IF r.ok THEN "ok" ELSE "failed"]
                 /\ IF ShareLimitReached(sent)
                    THEN /\ status' = r.status
                         /\ items' = r.items
                         /\ files' = r.files
                         /\ eg' = r.eg
                    ELSE /\ items' = its2
                         /\ UNCHANGED <<status, files, eg>>
          /\ UNCHANGED <<lookups, find, stale, reg>>
    /\ UNCHANGED <<pc, metered, now, poll_due, sysconfpkg_rescan_id, timeouts>>

\* passim_server_avahi_find_cb(): the lookup of a paused request ends, with
\* an error (no address) or with addresses, one of which is chosen
FindResults == {<<>>, <<"10.0.0.2:27500">>, <<"10.0.0.2:27500", "10.0.0.3:27500">>}

\* passim_server_context_send_redirect(): "https://%s/%s?sha256=%s" as the
\* Location header, and the status
passim_server_context_send_redirect(ctx, location) ==
    [code |-> SOUP_STATUS_MOVED_TEMPORARILY,
     location |-> "https://" \o location \o "/" \o ctx.basename \o "?sha256=" \o ctx.hash]

AvahiFindCb(ctx, addresses) ==
    /\ pc = "loop"
    /\ ctx \in lookups
    /\ lookups' = lookups \ {ctx}
    /\ IF addresses = <<>>
       THEN reply' = [op |-> "find", ctx |-> ctx, kind |-> "error", code |-> 404]
       ELSE \E index_random \in 1..Len(addresses) :
            LET r == passim_server_context_send_redirect(ctx, addresses[index_random]) IN
            reply' = [op |-> "find", ctx |-> ctx, kind |-> "redirect", code |-> r.code,
                      location |-> r.location, addresses |-> addresses]
    /\ UNCHANGED <<pc, status, items, files, metered, eg, now, poll_due,
                   sysconfpkg_rescan_id, timeouts, faults, reg>>

\* ---- the steps of a lookup
\* a callback of the lookup of ctx has ended with r: the lookup goes on, or
\* its GTask returns and passim_server_avahi_find_cb() answers the request
FindStep(ctx, cb, r) ==
    /\ stale' = (stale \/ r.stale)
    /\ IF r.returned
       THEN /\ AvahiFindCb(ctx, r.addresses)
            /\ find' = HashTableRemove(find, ctx)
       ELSE /\ find' = [find EXCEPT ![ctx] = r.helper]
            /\ reply' = [op |-> "avahi", ctx |-> ctx, cb |-> cb]
            /\ UNCHANGED <<pc, status, items, files, metered, eg, now, poll_due,
                           sysconfpkg_rescan_id, timeouts, lookups, faults, reg>>

\* passim_avahi_service_browser_prepare_cb(): the reply of
\* ServiceBrowserPrepare, or its error or timeout
BrowserPrepareCb(ctx, ok) ==
    /\ pc = "loop" /\ ctx \in DOMAIN find
    /\ find[ctx].op = "browser" /\ find[ctx].call = "Prepare"
    /\ FindStep(ctx, "browser_prepare_cb",
                IF ~ok THEN Return(<<>>, FALSE)
                ELSE Go([find[ctx] EXCEPT !.object_path = BrowserPath, !.call = "New"]))

\* passim_avahi_service_browser_new_cb(): the proxy of the browser is there
\* and Start is called, or it is not
BrowserNewCb(ctx, ok) ==
    /\ pc = "loop" /\ ctx \in DOMAIN find
    /\ find[ctx].op = "browser" /\ find[ctx].call = "New"
    /\ FindStep(ctx, "browser_new_cb",
                IF ~ok THEN Return(<<>>, FALSE)
                ELSE Go([find[ctx] EXCEPT !.signal_id = TRUE, !.call = "Start"]))

\* passim_avahi_service_browser_start_cb(): the reply of Start; its error or
\* timeout is returned and the last reference of the GTask is dropped
BrowserStartCb(ctx, ok) ==
    /\ pc = "loop" /\ ctx \in DOMAIN find
    /\ find[ctx].op = "browser" /\ find[ctx].call = "Start"
    /\ FindStep(ctx, "browser_start_cb",
                IF ~ok THEN Return(<<>>, find[ctx].free > 0)
                ELSE Go([find[ctx] EXCEPT !.call = "none"]))

\* a signal of the browser object reaches the connected handler
BrowserSignalCb(ctx, signal) ==
    /\ pc = "loop" /\ ctx \in DOMAIN find
    /\ find[ctx].op = "browser" /\ find[ctx].signal_id
    /\ signal.signal_name = "ItemNew" => Len(find[ctx].items) < MaxItems
    /\ FindStep(ctx, "browser_signal_cb",
                passim_avahi_service_browser_signal_cb(find[ctx], signal))

\* passim_avahi_service_browser_free_cb(): the reply of Free, which the
\* daemon sends after that of Start; then passim_avahi_service_browser_cb()
\* with the entries, or with the error when Free failed or nothing was found
BrowserFreeCb(ctx, ok) ==
    /\ pc = "loop" /\ ctx \in DOMAIN find
    /\ find[ctx].op = "browser" /\ find[ctx].free > 0 /\ find[ctx].call = "none"
    /\ FindStep(ctx, "browser_free_cb",
                IF ~ok \/ find[ctx].items = <<>> THEN Return(<<>>, FALSE)
                ELSE passim_avahi_service_resolve_next([find[ctx] EXCEPT !.free = @ - 1]))

\* passim_avahi_service_resolver_prepare_cb(): the reply of
\* ServiceResolverPrepare, or its error or timeout
ResolverPrepareCb(ctx, ok) ==
    /\ pc = "loop" /\ ctx \in DOMAIN find
    /\ find[ctx].op = "resolver" /\ find[ctx].call = "Prepare"
    /\ FindStep(ctx, "resolver_prepare_cb",
                IF ~ok THEN passim_avahi_service_resolve_cb(find[ctx], NULL)
                ELSE Go([find[ctx] EXCEPT !.object_path = ResolverPath(Len(find[ctx].items)),
                                          !.call = "New"]))

\* passim_avahi_service_resolver_new_cb(): the proxy of the resolver is
\* there and Start is called, or it is not
ResolverNewCb(ctx, ok) ==
    /\ pc = "loop" /\ ctx \in DOMAIN find
    /\ find[ctx].op = "resolver" /\ find[ctx].call = "New"
    /\ FindStep(ctx, "resolver_new_cb",
                IF ~ok THEN passim_avahi_service_resolve_cb(find[ctx], NULL)
                ELSE Go([find[ctx] EXCEPT !.signal_id = TRUE, !.call = "Start"]))

\* passim_avahi_service_resolver_start_cb(): the reply of Start, and the
\* buffered signals are replayed; its error or timeout is returned and a
\* reference of the GTask is dropped, the last one when the fallback is
\* unsubscribed
ResolverStartCb(ctx, ok) ==
    /\ pc = "loop" /\ ctx \in DOMAIN find
    /\ find[ctx].op = "resolver" /\ find[ctx].call = "Start"
    /\ FindStep(ctx, "resolver_start_cb",
                IF ~ok
                THEN [passim_avahi_service_resolve_cb(find[ctx], NULL) EXCEPT
                          !.stale = find[ctx].free > 0 /\ ~find[ctx].subscription_id]
                ELSE Replay(Go([find[ctx] EXCEPT !.call = "none"]), find[ctx].signals))

\* passim_avahi_service_resolver_signal_fallback_cb(): a signal of a
\* resolver object reaches the fallback subscription and is kept
ResolverSignalFallbackCb(ctx, signal) ==
    /\ pc = "loop" /\ ctx \in DOMAIN find
    /\ find[ctx].op = "resolver" /\ find[ctx].subscription_id
    /\ Len(find[ctx].signals) < MaxSignals
    /\ FindStep(ctx, "resolver_signal_fallback_cb",
                Go([find[ctx] EXCEPT !.signals = Append(@, signal)]))

\* passim_avahi_service_resolver_signal_cb(): a signal of this resolver's
\* object reaches the connected handler; the fallback is unsubscribed
ResolverSignalCb(ctx, signal) ==
    /\ pc = "loop" /\ ctx \in DOMAIN find
    /\ find[ctx].op = "resolver" /\ find[ctx].signal_id
    /\ FindStep(ctx, "resolver_signal_cb",
                passim_avahi_service_resolver_signal(
                    Go([find[ctx] EXCEPT !.subscription_id = FALSE]), signal))

\* passim_avahi_service_resolver_free_cb(): the reply of a Free, which the
\* daemon sends after that of Start; the address or the error of Free is
\* returned, and a reference of the GTask is dropped, the last one when the
\* fallback is unsubscribed
ResolverFreeCb(ctx, ok) ==
    /\ pc = "loop" /\ ctx \in DOMAIN find
    /\ find[ctx].op = "resolver" /\ find[ctx].free > 0 /\ find[ctx].call = "none"
    /\ FindStep(ctx, "resolver_free_cb",
                [passim_avahi_service_resolve_cb(find[ctx],
                                                 IF ok THEN find[ctx].address ELSE NULL)
                 EXCEPT !.stale = find[ctx].free > 1 /\ ~find[ctx].subscription_id])

\* a reply comes in for a GTask that was freed: its callback reads freed
\* memory, which goes unnoticed or ends the process
StaleCb ==
    /\ pc = "loop" /\ stale
    /\ stale' = FALSE
    /\ \/ /\ reply' = [op |-> "stale"]
          /\ UNCHANGED <<pc, items, sysconfpkg_rescan_id, timeouts, lookups, find>>
       \/ /\ pc' = "exited"
          /\ items' = <<>>
          /\ sysconfpkg_rescan_id' = 0
          /\ timeouts' = <<>>
          /\ lookups' = {}
          /\ find' = <<>>
          /\ reply' = [op |-> "SIGSEGV"]
    /\ UNCHANGED <<status, files, metered, eg, now, poll_due, faults, reg>>

\* ------------------------------------------------------------- D-Bus calls
\* passim_config_get_max_item_size(): MaxItemSize of passim.conf, in bytes.
\* The default is 100 MiB; the daemon of the model is configured with 2, so
\* that there are streams of the limit and above it.
MaxItemSize == 2

\* a caller check that reads the uid and does not compare it
SenderCheckUidAny(uid, bus_ok) == IF ~bus_ok THEN "Failed" ELSE "ok"

\* passim_server_sender_check_uid(): the bus tells the caller's uid, or fails
passim_server_sender_check_uid(uid, bus_ok) ==
    IF ~bus_ok THEN "Failed"
    ELSE IF uid # 0 THEN "PermissionDenied"
    ELSE "ok"

\* what one Publish call meets: nothing fails ("none"), or the first call
\* that fails: the uid or the command line of the caller cannot be read, the
\* handle or the stream is bad, a step of passim_server_publish_file() or a
\* call of its register fails
PublishIo == {"mkdir", "set_contents", "max_age", "share_limit", "cmdline", "boot_time"}
PublishOutcomes == {"bus", "get_cmdline", "fd", "read"} \cup PublishIo \cup RegOutcomes

\* the file passim_server_publish_file() has written when step out fails,
\* or when no step does
PublishedFile(bytes, item, t, out) ==
    LET f0 == NewFile(bytes, t)
        f1 == [f0 EXCEPT !.max_age = item.max_age]
        f2 == [f1 EXCEPT !.share_limit = item.share_limit]
        f3 == [f2 EXCEPT !.cmdline = item.cmdline]
        f4 == IF passim_item_has_flag(item, PASSIM_ITEM_FLAG_NEXT_REBOOT)
              THEN [f3 EXCEPT !.boot_time = BootTimeNow] ELSE f3
    IN  CASE out = "max_age" -> f0
          [] out = "share_limit" -> f1
          [] out = "cmdline" -> f2
          [] out = "boot_time" -> f3
          [] OTHER -> f4

\* a publish that keeps the hash the caller sent, when there is one
PublishHashOfCaller(blob, item) == IF item.hash # NULL THEN item.hash ELSE Sha256(blob)

\* the hash under which passim_server_publish_file() stores the item:
\* g_compute_checksum_for_bytes() of the blob, not the hash of the caller
PublishHash(blob, item) == Sha256(blob)

\* a store lookup that never finds the hash
ItemsContainNever(its, hash) == FALSE

\* g_hash_table_contains(self->items, hash) of passim_server_publish_file()
ItemsContain(its, hash) == hash \in DOMAIN its

\* passim_load_input_stream(): a stream of len bytes is read to its end;
\* a read that fails, and a stream longer than count, give
\* G_IO_ERROR_INVALID_DATA
passim_load_input_stream(len, count, read_ok) ==
    IF count = 0
    THEN [ok |-> FALSE, code |-> "NOT_SUPPORTED",
          message |-> "A maximum read size must be specified"]
    ELSE IF ~read_ok
    THEN [ok |-> FALSE, code |-> "INVALID_DATA", message |-> "read"]
    ELSE IF len > count
    THEN [ok |-> FALSE, code |-> "INVALID_DATA",
          message |-> "cannot read from fd: 0x%x > 0x%x"]
    ELSE [ok |-> TRUE, code |-> "", message |-> ""]

\* the message with g_format_size() of the limit
SizeLimitMessage == "Failed to load file, size limit is %s"

\* passim_server_method_call(), "Publish": the message of the error when
\* the stream could not be loaded: the one with the size limit for
\* G_IO_ERROR_NO_SPACE, the message of passim_load_input_stream() otherwise
PublishMessage(out, blob) ==
    LET r == passim_load_input_stream(Len(blob), MaxItemSize, out # "read") IN
    IF r.ok THEN ""
    ELSE IF r.code = "NO_SPACE" THEN SizeLimitMessage
    ELSE r.message

\* checks that take any basename
PublishCheckAnyBasename(uid, out, item) ==
    LET u == passim_server_sender_check_uid(uid, out # "bus") IN
    IF u # "ok" THEN u
    ELSE IF out = "get_cmdline" THEN "Failed"
    ELSE IF item.share_count >= item.share_limit THEN "InvalidArgs"
    ELSE IF out = "fd" THEN "InvalidArgs"
    ELSE IF ~passim_load_input_stream(Len(item.blob), MaxItemSize, out # "read").ok
         THEN "InvalidData"
    ELSE "ok"

\* the checks of the Publish call before the bytes are read: the caller,
\* its command line, the basename and the share values
PublishCheck(uid, out, item) ==
    LET u == passim_server_sender_check_uid(uid, out # "bus") IN
    IF u # "ok" THEN u
    ELSE IF out = "get_cmdline" THEN "Failed"
    ELSE IF ContainsSlash(item.basename) THEN "InvalidArgs"
    ELSE IF item.share_count >= item.share_limit THEN "InvalidArgs"
    ELSE IF out = "fd" THEN "InvalidArgs"
    ELSE IF ~passim_load_input_stream(Len(item.blob), MaxItemSize, out # "read").ok
         THEN "InvalidData"
    ELSE "ok"

\* passim_server_publish_file(): the result, and the store, the files, the
\* status and the entry group it leaves
passim_server_publish_file(st, its, fs, met, g, blob, item0, t, out) ==
    LET hash == PublishHash(blob, item0)
        path == HashedFilename(hash, item0.basename)
        nr == passim_item_has_flag(item0, PASSIM_ITEM_FLAG_NEXT_REBOOT)
        item == [hash |-> hash,
                 basename |-> item0.basename,
                 cmdline |-> item0.cmdline,
                 max_age |-> item0.max_age,
                 share_limit |-> item0.share_limit,
                 share_count |-> item0.share_count,
                 flags |-> IF nr THEN item0.flags \cup {PASSIM_ITEM_FLAG_DISABLED}
                           ELSE item0.flags,
                 ctime |-> t,
                 file |-> path]
        same == [result |-> "IOError", status |-> st, items |-> its, files |-> fs, eg |-> g]
        its2 == HashTableInsert(its, hash, item)
        fs2 == HashTableInsert(fs, path, PublishedFile(blob, item, t, out))
        r == passim_server_avahi_register(st, its2, met, g, out)
    IN  IF ItemsContain(its, hash) THEN [same EXCEPT !.result = "Exists"]
        ELSE IF out = "mkdir" THEN same
        ELSE IF path \in DOMAIN fs THEN [same EXCEPT !.result = "Exists"]
        ELSE IF out = "set_contents" THEN same
        ELSE IF out \in {"max_age", "share_limit", "cmdline"} \/ (out = "boot_time" /\ nr)
        THEN [same EXCEPT !.files = fs2]
        ELSE [result |-> IF r.ok THEN "ok" ELSE "AvahiError",
              status |-> r.status, items |-> its2, files |-> fs2, eg |-> r.eg]

\* passim_server_method_call(), "Publish": the attributes the caller sent
\* (passim_item_from_variant), the caller and the bytes behind the handle
Publish(uid, attrs, blob, out) ==
    /\ pc = "loop"
    /\ out \in PublishOutcomes
    /\  LET req == [uid |-> uid, attrs |-> attrs, blob |-> blob]
            chk == PublishCheck(uid, out, [attrs EXCEPT !.blob = blob])
            r == passim_server_publish_file(status, items, files, metered, eg, blob,
                                            [attrs EXCEPT !.cmdline = Cmdline], now, out)
        IN  IF chk # "ok"
            THEN /\ reply' = [op |-> "Publish", req |-> req, result |-> chk,
                              message |-> IF chk = "InvalidData"
                                          THEN PublishMessage(out, blob) ELSE ""]
                 /\ UNCHANGED <<status, items, files, eg, faults>>
            ELSE /\ Charge(out) >= 0
                 /\ faults' = Charge(out)
                 /\ reply' = [op |-> "Publish", req |-> req, result |-> r.result,
                              message |-> ""]
                 /\ status' = r.status
                 /\ items' = r.items
                 /\ files' = r.files
                 /\ eg' = r.eg
    /\ UNCHANGED <<pc, metered, now, poll_due, sysconfpkg_rescan_id, timeouts, lookups, find, stale, reg>>

\* what one Unpublish call meets: nothing fails, the uid of the caller cannot
\* be read, or a call of passim_server_delete_item() fails
UnpublishOutcomes == {"bus"} \cup DelOutcomes

\* passim_server_method_call(), "Unpublish"
Unpublish(uid, hash, out) ==
    /\ pc = "loop"
    /\ out \in UnpublishOutcomes
    /\  LET req == [uid |-> uid, hash |-> hash]
            u == passim_server_sender_check_uid(uid, out # "bus")
        IN  IF u # "ok"
            THEN /\ reply' = [op |-> "Unpublish", req |-> req, result |-> u]
                 /\ UNCHANGED <<status, items, files, eg, faults>>
            ELSE IF hash \notin DOMAIN items
            THEN /\ reply' = [op |-> "Unpublish", req |-> req, result |-> "NotFound"]
                 /\ UNCHANGED <<status, items, files, eg, faults>>
            ELSE LET r == passim_server_delete_item(status, items, files, metered, eg,
                                                    items[hash], out)
                 IN  /\ Charge(out) >= 0
                     /\ faults' = Charge(out)
                     /\ reply' = [op |-> "Unpublish", req |-> req,
                                  result |-> IF r.ok THEN "ok"
                                             ELSE IF hash \in DOMAIN r.items
                                                  THEN "IOError" ELSE "AvahiError"]
                     /\ status' = r.status
                     /\ items' = r.items
                     /\ files' = r.files
                     /\ eg' = r.eg
    /\ UNCHANGED <<pc, metered, now, poll_due, sysconfpkg_rescan_id, timeouts, lookups, find, stale, reg>>

\* ------------------------------------------------- contributed directory
\* the contributed file as its owner may write it: some bytes, and either no
\* cached checksum or one that was computed for other bytes
PkgFiles ==
    {[NewFile(<<2>>, 0) EXCEPT !.checksum = c] : c \in {"", Sha256(<<1>>)}}

\* a contributed file with the bytes of a published one
PkgFilesSame == {NewFile(<<1>>, 0)}

\* the delay of the rescan timer, ms
RescanDelay == 500

\* a handler that adds a timer and leaves the one that is pending
ChangedCbKeepTimer(id, pending) == Append(pending, 0)

\* passim_server_sysconfpkgdir_changed_cb(): the pending timeouts after it:
\* the timer of sysconfpkg_rescan_id is removed and a new one is added
passim_server_sysconfpkgdir_changed_cb(id, pending) ==
    (IF id # 0 THEN Tail(pending) ELSE pending) \o <<0>>

\* RescanDelay ms pass in which the contributed directory does not change
RescanWait ==
    /\ pc = "loop"
    /\ timeouts # <<>> /\ timeouts[Len(timeouts)] < RescanDelay
    /\ timeouts' = [i \in 1..Len(timeouts) |-> RescanDelay]
    /\ reply' = [op |-> "wait"]
    /\ UNCHANGED <<pc, status, items, files, metered, eg, now, poll_due,
                   sysconfpkg_rescan_id, lookups, faults, find, stale, reg>>

\* the contributed file is moved in or removed, and the monitor calls
\* passim_server_sysconfpkgdir_changed_cb(): the rescan is put off by 500 ms
SysconfpkgdirChanged(pkgfiles) ==
    /\ pc = "loop"
    /\ \/ /\ Path("pkg", PkgName) \notin DOMAIN files
          /\ \E f \in pkgfiles :
                files' = HashTableInsert(files, Path("pkg", PkgName), f)
       \/ /\ Path("pkg", PkgName) \in DOMAIN files
          /\ files' = HashTableRemove(files, Path("pkg", PkgName))
    /\ sysconfpkg_rescan_id' = 1
    /\ timeouts' = passim_server_sysconfpkgdir_changed_cb(sysconfpkg_rescan_id, timeouts)
    /\ reply' = [op |-> "changed"]
    /\ UNCHANGED <<pc, status, items, metered, eg, now, poll_due, lookups, find, stale, faults, reg>>

SysconfpkgdirChangedCb == SysconfpkgdirChanged(PkgFiles)

\* passim_server_sysconfpkgdir_timeout_cb(): rescan, then register, whatever
\* the scan did
SysconfpkgdirTimeoutCb ==
    /\ pc = "loop"
    /\ timeouts # <<>> /\ Head(timeouts) = RescanDelay
    /\ sysconfpkg_rescan_id' = 0
    /\ timeouts' = Tail(timeouts)
    /\ \E porder \in Orders(DirFiles(files, "pkg")),
          io \in [DirFiles(files, "pkg") -> ScanIo], out \in RegOutcomes :
        LET s == passim_server_sysconfpkgdir_scan(items, files, porder, io)
            r == passim_server_avahi_register(status, s.items, metered, eg, out)
            n == FaultCount([p \in DOMAIN io |-> IF io[p] = "ok" THEN "none" ELSE io[p]],
                            DOMAIN io)
                 + (IF out = "none" THEN 0 ELSE 1)
        IN  /\ n <= faults
            /\ faults' = faults - n
            /\ items' = s.items
            /\ files' = s.files
            /\ status' = r.status
            /\ eg' = r.eg
            /\ reply' = [op |-> "rescan", scanned |-> s.ok, ok |-> r.ok]
    /\ UNCHANGED <<pc, metered, now, poll_due, lookups, find, stale, reg>>

\* passim_server_sigint_cb(): the main loop quits, main() returns and
\* passim_server_free() drops the store, the rescan timer and the paused
\* requests; the files stay
SigintCb ==
    /\ pc = "loop"
    /\ pc' = "exited"
    /\ items' = <<>>
    /\ sysconfpkg_rescan_id' = 0
    /\ timeouts' = <<>>
    /\ lookups' = {}
    /\ find' = <<>>
    /\ stale' = FALSE
    /\ reply' = NoReply
    /\ UNCHANGED <<status, files, metered, eg, now, poll_due, faults, reg>>

\* passim_server_dbus_name_lost_cb(): another service has claimed the bus
\* name; the main loop quits as it does on SIGINT
NameLostCb ==
    /\ pc = "loop"
    /\ pc' = "exited"
    /\ items' = <<>>
    /\ sysconfpkg_rescan_id' = 0
    /\ timeouts' = <<>>
    /\ lookups' = {}
    /\ find' = <<>>
    /\ stale' = FALSE
    /\ reply' = [op |-> "exit", cause |-> "name_lost"]
    /\ UNCHANGED <<status, files, metered, eg, now, poll_due, faults, reg>>

\* passim_server_timed_exit_cb(): the daemon was started with --timed-exit
\* and the 10 s of its timer have passed; the main loop quits
TimedExitCb ==
    /\ pc = "loop"
    /\ pc' = "exited"
    /\ items' = <<>>
    /\ sysconfpkg_rescan_id' = 0
    /\ timeouts' = <<>>
    /\ lookups' = {}
    /\ find' = <<>>
    /\ stale' = FALSE
    /\ reply' = [op |-> "exit", cause |-> "timed_exit"]
    /\ UNCHANGED <<status, files, metered, eg, now, poll_due, faults, reg>>

\* ------------------------------------------------------------ D-Bus signals
\* passim_server_engine_changed(): the Changed signals a step of the running
\* daemon emits: one from passim_server_set_status() when the status
\* changes, one at the end of a passim_server_sysconfpkgdir_scan() that did
\* not fail
ChangedSignals ==
    (IF status' # status THEN 1 ELSE 0)
    + (IF sysconfpkg_rescan_id # 0 /\ sysconfpkg_rescan_id' = 0 /\ pc' = "loop"
          /\ reply'.op = "rescan" /\ reply'.scanned
       THEN 1 ELSE 0)

\* ------------------------------------------------------------ the inputs
H1 == Sha256(<<1>>)
H2 == Sha256(<<2>>)
\* 64 characters that are not all hexadecimal: "g" 64 times
RECURSIVE Repeat(_, _)
Repeat(c, n) == IF n = 0 THEN "" ELSE c \o Repeat(c, n - 1)
HashNotHex == Repeat("g", HashLen)
\* 4 characters: "abcd"
HashShort == "abcd"
\* "x=y", a query element that is not the hash
OtherArg == <<"x", "y">>
Sha256Arg(hash) == <<Sha256Key, hash>>

\* the attributes a Publish caller sends (passim_item_from_variant): the
\* hash and the command line are the caller's own; blob stands for the handle
Attrs(basename, max_age, share_limit, share_count, flags, hash) ==
    [hash |-> hash, basename |-> basename, cmdline |-> "evil", max_age |-> max_age,
     share_limit |-> share_limit, share_count |-> share_count, flags |-> flags,
     blob |-> <<>>]

\* a file that is shared twice and lives one second
CallA == [attrs |-> Attrs(BasenameA, 1, 2, 0, {}, H2), blob |-> <<1>>]
\* the same bytes under another name, for the next reboot, never aged
CallB == [attrs |-> Attrs(BasenameB, G_MAXUINT32, 1, 0, {PASSIM_ITEM_FLAG_NEXT_REBOOT}, NULL),
          blob |-> <<1>>]
\* the largest share limit, one share short of it
CallD == [attrs |-> Attrs(BasenameB, 2, G_MAXUINT32, G_MAXUINT32 - 1, {}, HashNotHex),
          blob |-> <<1>>]
\* a basename with a directory separator
CallE == [attrs |-> Attrs(BasenameBad, 1, 2, 0, {}, NULL), blob |-> <<1>>]
\* a share count that is not below the share limit
CallF == [attrs |-> Attrs(BasenameA, 1, 1, 1, {}, NULL), blob |-> <<1>>]
\* other bytes, named by the caller with the hash of the first ones
CallG == [attrs |-> Attrs(BasenameB, G_MAXUINT32, G_MAXUINT32, 0, {}, H1), blob |-> <<2>>]

PublishCalls == {CallA, CallB, CallD, CallE, CallF, CallG}

\* a stream of MaxItemSize bytes, and one that is a byte longer
CallS == [attrs |-> Attrs(BasenameA, 1, 2, 0, {}, NULL), blob |-> <<1, 1>>]
CallL == [attrs |-> Attrs(BasenameA, 1, 2, 0, {}, NULL), blob |-> <<1, 1, 1>>]
HS == Sha256(<<1, 1>>)
ReqHSRemote == Request("GET", RemoteAddr, "/a", TRUE, <<Sha256Arg(HS)>>)

\* the callers of the D-Bus methods: root and an ordinary user
Uids == {0, 1000}

ReqIndex == Request("GET", LoopbackAddr, "/", FALSE, <<>>)
ReqIndexRemote == Request("GET", RemoteAddr, "/", FALSE, <<>>)
ReqStyle == Request("GET", LoopbackAddr, "/style.css", FALSE, <<>>)
ReqFaviconRemote == Request("GET", RemoteAddr, "/favicon.ico", FALSE, <<>>)
ReqStyleRemote == Request("GET", RemoteAddr, "/style.css", FALSE, <<>>)
ReqPost == Request("POST", RemoteAddr, "/a", TRUE, <<Sha256Arg(H1)>>)
ReqPostIndex == Request("POST", LoopbackAddr, "/", FALSE, <<>>)
ReqPostNoAddr == Request("POST", NULL, "/a", FALSE, <<>>)
ReqNoAddr == Request("GET", NULL, "/a", TRUE, <<Sha256Arg(H1)>>)
ReqNoQuery == Request("GET", LoopbackAddr, "/a", FALSE, <<>>)
ReqNoHash == Request("GET", RemoteAddr, "/a", TRUE, <<OtherArg>>)
ReqShortHash == Request("GET", RemoteAddr, "/a", TRUE, <<Sha256Arg(HashShort)>>)
ReqNotHex == Request("GET", LoopbackAddr, "/a", TRUE, <<Sha256Arg(HashNotHex)>>)
ReqH1 == Request("GET", LoopbackAddr, "/a", TRUE, <<Sha256Arg(H1)>>)
ReqH1Remote == Request("GET", RemoteAddr, "/a", TRUE, <<Sha256Arg(H1)>>)
ReqH2 == Request("GET", LoopbackAddr, "/a", TRUE, <<OtherArg, Sha256Arg(H2)>>)
ReqH2Remote == Request("GET", RemoteAddr, "/a", TRUE, <<Sha256Arg(H2)>>)

HttpRequests ==
    {ReqIndex, ReqIndexRemote, ReqStyle, ReqStyleRemote, ReqFaviconRemote, ReqPost,
     ReqPostIndex, ReqPostNoAddr, ReqNoAddr,
     ReqNoQuery, ReqNoHash, ReqShortHash, ReqNotHex, ReqH1, ReqH1Remote, ReqH2,
     ReqH2Remote}

\* a set of D-Bus calls: each call of calls, by each caller of uids
By(uids, calls) == {[uid |-> uid, call |-> c] : uid \in uids, c \in calls}

\* the steps of the daemon: main(), the timers, the network monitor, the
\* signal, and the handlers for the requests reqs, for the Publish calls pubs
\* with the outcomes pouts, and for the Unpublish calls unpubs with the
\* outcomes uouts
Daemon(reqs, pubs, pouts, unpubs, uouts) ==
    \/ MainStartup
    \/ MainRegister
    \/ Tick
    \/ CheckItemAgeCb
    \/ MeteredChangedCb
    \/ SigintCb
    \/ NameLostCb
    \/ TimedExitCb
    \/ \E req \in reqs : HandlerCb(req)
    \/ \E p \in pubs, out \in pouts : Publish(p.uid, p.call.attrs, p.call.blob, out)
    \/ \E u \in unpubs, out \in uouts : Unpublish(u.uid, u.call, out)

\* the contributed directory changes, and is scanned again
Contributed == SysconfpkgdirChangedCb \/ RescanWait \/ SysconfpkgdirTimeoutCb

\* a discovery lookup ends
Discovery ==
    \E ctx \in lookups, addresses \in FindResults :
        /\ AvahiFindCb(ctx, addresses)
        /\ find' = HashTableRemove(find, ctx)
        /\ UNCHANGED stale

\* the daemon with root as its only caller and remote requests that name a
\* published file
Next ==
    Daemon({ReqH1Remote, ReqH2Remote}, By({0}, {CallA, CallB}), RegOutcomes \cup {"max_age"},
           By({0}, {H1}), DelOutcomes)
Spec == Init /\ [][Next]_vars

\* the daemon with a contributed directory that changes
NextPkg ==
    \/ Daemon({ReqH1Remote, ReqH2Remote}, By({0}, {CallA}), {"none"},
              By({0}, {H1, H2}), {"none"})
    \/ Contributed
SpecPkg == InitFew /\ [][NextPkg]_vars

\* the daemon under every request of the model
NextHttp ==
    \/ Daemon(HttpRequests, By({0}, {CallA, CallB}), {"none"}, By({0}, {H1}), {"none"})
    \/ Discovery
SpecHttp == InitFew /\ [][NextHttp]_vars

\* the daemon under Publish calls with streams at the size limit and above
NextSize ==
    Daemon({ReqHSRemote}, By({0}, {CallS, CallL}), {"none", "read"}, By({0}, {HS}), {"none"})
InitSize == InitFew /\ files = <<>>
SpecSize == InitSize /\ [][NextSize]_vars

\* the boot token of an earlier boot
BootTimeOld == "btime-old"

\* the owned directory after a run that published for the next reboot, in
\* this boot or in an earlier one; or nothing
BootFiles ==
    {<<>>} \cup {[p \in {HashedFilename(H1, BasenameB)} |-> OldFile(<<1>>, 2, 2, bt)] :
                    bt \in {BootTimeNow, BootTimeOld}}

\* the daemon with items published for the next reboot or with the largest
\* share limit, and a contributed directory
NextBoot ==
    \/ Daemon({ReqH1Remote}, By({0}, {CallB, CallD}), {"none"}, By({0}, {H1}), {"none"})
    \/ SysconfpkgdirChanged(PkgFilesSame) \/ RescanWait \/ SysconfpkgdirTimeoutCb
InitBoot == StartFrom(FewFaults, BootFiles)
SpecBoot == InitBoot /\ [][NextBoot]_vars

\* the daemon under every Publish call of the model, and under callers that
\* are not root
NextDbus ==
    Daemon({ReqH1Remote}, By({0}, PublishCalls \ {CallD}) \cup By({1000}, {CallA, CallE}),
           {"none", "bus", "get_cmdline", "fd", "read", "set_contents", "boot_time"},
           By(Uids, {H1}), {"none", "bus"})
\* the replies, errors and timeouts of the D-Bus calls of the lookups
Replies ==
    \E ctx \in DOMAIN find, ok \in BOOLEAN :
        \/ BrowserPrepareCb(ctx, ok)
        \/ BrowserNewCb(ctx, ok)
        \/ BrowserStartCb(ctx, ok)
        \/ BrowserFreeCb(ctx, ok)
        \/ ResolverPrepareCb(ctx, ok)
        \/ ResolverNewCb(ctx, ok)
        \/ ResolverStartCb(ctx, ok)
        \/ ResolverFreeCb(ctx, ok)

\* the signals the discovery daemon sends to the lookups
Signals ==
    \E ctx \in DOMAIN find :
        \/ \E signal \in BrowserSignals : BrowserSignalCb(ctx, signal)
        \/ \E signal \in OwnSignals(find[ctx]) \cup OtherSignals :
               ResolverSignalFallbackCb(ctx, signal)
        \/ \E signal \in OwnSignals(find[ctx]) : ResolverSignalCb(ctx, signal)

\* ---- the registers of the main loop, call by call
\* what makes a handler call passim_server_avahi_register(): a Publish, an
\* Unpublish, a share that reached the limit, the age check, the rescan timer
\* and a change of the metered state
RegisterTriggers ==
    {"Publish", "Unpublish", "share_limit", "check_item_age", "sysconfpkgdir_timeout",
     "metered_changed"}

\* a source of the main loop becomes ready: the message, request or timer of
\* a trigger has come in; this happens while a handler runs too
SourceReady(trigger) ==
    /\ pc = "loop"
    /\ trigger \notin reg.ready
    /\ reg' = [reg EXCEPT !.ready = @ \cup {trigger}]
    /\ UNCHANGED <<pc, status, items, files, metered, eg, now, poll_due,
                   sysconfpkg_rescan_id, timeouts, lookups, reply, faults, find, stale>>

\* a main loop that dispatches a ready source while a register waits for
\* the reply of a call
RegisterBeginReentrant(trigger) ==
    /\ pc = "loop" /\ status # PASSIM_STATUS_STARTING /\ ~metered
    /\ trigger \in reg.ready
    /\ reg.next <= MaxRegisters
    /\ reg' = [reg EXCEPT !.ready = @ \ {trigger},
                          !.running = @ @@ (reg.next :> [trigger |-> trigger, sent |-> 0]),
                          !.next = @ + 1]
    /\ UNCHANGED <<pc, status, items, files, metered, eg, now, poll_due,
                   sysconfpkg_rescan_id, timeouts, lookups, reply, faults, find, stale>>

\* the main loop dispatches a ready source and its handler comes to
\* passim_server_avahi_register(); the loop dispatches nothing while a
\* handler is in a g_dbus_proxy_call_sync()
RegisterBegin(trigger) ==
    /\ pc = "loop" /\ status # PASSIM_STATUS_STARTING /\ ~metered
    /\ trigger \in reg.ready
    /\ DOMAIN reg.running = {}
    /\ reg.next <= MaxRegisters
    /\ reg' = [reg EXCEPT !.ready = @ \ {trigger},
                          !.running = @ @@ (reg.next :> [trigger |-> trigger, sent |-> 0]),
                          !.next = @ + 1]
    /\ UNCHANGED <<pc, status, items, files, metered, eg, now, poll_due,
                   sysconfpkg_rescan_id, timeouts, lookups, reply, faults, find, stale>>

\* the next g_dbus_proxy_call_sync() of passim_avahi_register() is sent and
\* answered; the register ends with Commit or with the call that failed, and
\* passim_server_avahi_register() sets the status
RegisterCall(id, ok) ==
    /\ pc = "loop"
    /\ id \in DOMAIN reg.running
    /\ LET calls == passim_avahi_register(eg, AvahiKeys(items), "none").calls
           i == reg.running[id].sent + 1
           done == ~ok \/ i = Len(calls)
           r == passim_server_avahi_register(status, items, metered, eg,
                                             IF ok THEN "none" ELSE calls[i].method)
       IN  /\ reg' = [reg EXCEPT !.log = Append(@, [id |-> id, method |-> calls[i].method]),
                                 !.running = IF done THEN HashTableRemove(@, id)
                                             ELSE [@ EXCEPT ![id].sent = i]]
           /\ IF done THEN eg' = r.eg /\ status' = r.status ELSE UNCHANGED <<eg, status>>
    /\ UNCHANGED <<pc, items, files, metered, now, poll_due,
                   sysconfpkg_rescan_id, timeouts, lookups, reply, faults, find, stale>>

\* the daemon on an unmetered network, with the files of its data directory
\* loaded, under the triggers of a register in every order, each register
\* followed call by call
NextReg ==
    \/ MainStartup
    \/ MainRegister
    \/ \E trigger \in RegisterTriggers : SourceReady(trigger)
    \/ \E trigger \in RegisterTriggers : RegisterBegin(trigger)
    \/ \E id \in DOMAIN reg.running, ok \in BOOLEAN : RegisterCall(id, ok)
InitReg == InitFew /\ ~metered
SpecReg == InitReg /\ [][NextReg]_vars

\* the daemon starts on an empty data directory: every item of the store was
\* published over D-Bus
InitEmpty == InitFew /\ files = <<>>
SpecDbus == InitEmpty /\ [][NextDbus]_vars

\* the daemon on an unmetered network with an empty data directory, under
\* loopback requests for a hash it does not hold, each lookup followed call
\* by call and signal by signal
NextFind ==
    \/ MainStartup
    \/ MainRegister
    \/ HandlerCb(ReqH2)
    \/ Replies
    \/ Signals
    \/ StaleCb
InitFind == InitEmpty /\ ~metered
SpecFind == InitFind /\ [][NextFind]_vars

\* the same; every D-Bus call ends with its reply, its error or its timeout
\* (PASSIM_SERVER_TIMEOUT), and the main loop runs the callback
SpecFindFair == SpecFind /\ WF_vars(Replies) /\ WF_vars(StaleCb)

\* ---------------------------------------------------------------- claims
\* The steps of the handlers, told apart by the answer they leave: Tick and
\* the steps of main() change now or pc and leave the answer alone.
HttpStep == reply'.op = "http" /\ now' = now /\ pc' = pc
PublishStep == reply'.op = "Publish" /\ now' = now /\ pc' = pc
UnpublishStep == reply'.op = "Unpublish" /\ now' = now /\ pc' = pc
SweepStep == poll_due' # poll_due

\* the subtype a hash is advertised under
Subtype(hash) == passim_avahi_build_subtype_for_hash(hash)

\* a peer that is not the loopback interface
NonLoopback(req) == req.remote # NULL /\ ~passim_server_is_loopback(req.remote)

\* the store, the files, the advertisement and the status stay as they are
StoreUnchanged == UNCHANGED <<items, files, eg, status>>

\* C1: in every state of the running daemon, every item GetItems returns
\* whose share_limit is not the unlimited sentinel has share_count strictly
\* below share_limit, also when file deletions and Avahi calls fail.
C1_ShareCountBelowLimit ==
    pc = "loop" =>
        \A item \in GetItems :
            item.share_limit # G_MAXUINT32 => item.share_count < item.share_limit

\* C2: a serve that makes share_count reach share_limit destroys the item in
\* that same request: it is gone from the store (so from GetItems and from
\* later GETs) and its backing file is gone.
C2_LastShareDestroys ==
    [][HttpStep /\ reply'.kind = "item" /\ reply'.code = 200 =>
         LET hash == QueryHash(reply'.req.request) IN
         items[hash].share_count + 1 = items[hash].share_limit =>
             /\ hash \notin DOMAIN items'
             /\ items[hash].file \notin DOMAIN files']_vars

\* C3: a request from a peer that is not loopback never starts a lookup and
\* is never answered with the index, an asset or a redirect; GET of "/",
\* "/favicon.ico" or "/style.css" is answered 403, GET with a well-formed
\* sha256 that names no local item is answered 403, and 200 is the answer
\* only of a GET that names a local item which is not DISABLED.
C3_NonLoopbackPeer ==
    [][HttpStep /\ NonLoopback(reply'.req) =>
         LET req == reply'.req
             hash == QueryHash(req.request)
             page == req.path \in {"/", "/favicon.ico", "/style.css"}
         IN  /\ lookups' = lookups
             /\ reply'.kind \in {"error", "item"}
             /\ reply'.code \notin {302, 303, 404}
             /\ req.method = "GET" /\ page => reply'.code = 403
             /\ (/\ req.method = "GET" /\ ~page /\ req.has_query
                 /\ hash # NULL /\ Len(hash) = 64
                 /\ hash \notin DOMAIN items) => reply'.code = 403
             /\ reply'.code = 200 =>
                    /\ req.method = "GET"
                    /\ hash \in DOMAIN items
                    /\ PASSIM_ITEM_FLAG_DISABLED \notin items[hash].flags]_vars

\* a remote peer asked for a hash that is not local and was refused
C3_Witness ==
    /\ reply.op = "http" /\ reply.req = ReqH2Remote /\ reply.code = 403
    /\ H1 \in DOMAIN items /\ H2 \notin DOMAIN items /\ lookups = {}

C5_HashOfBytes ==
    [][/\ PublishStep /\ reply'.result = "ok" =>
              LET hash == Sha256(reply'.req.blob) IN
              /\ hash \in DOMAIN items'
              /\ items'[hash].hash = hash
              /\ Sha256(files'[items'[hash].file].bytes) = hash
       /\ \A hash \in DOMAIN items' : items'[hash].hash = hash]_vars

\* a Publish whose caller sent the hash of other bytes has succeeded
C5_Witness ==
    /\ reply.op = "Publish" /\ reply.result = "ok"
    /\ reply.req.attrs.hash = H1 /\ reply.req.blob = <<2>>
    /\ H2 \in DOMAIN items /\ items[H2].hash = H2

\* C6 as stated: a Publish or Unpublish of a caller whose uid is not 0
\* returns PermissionDenied and changes nothing.
C6_PermissionDenied ==
    [][(PublishStep \/ UnpublishStep) /\ reply'.req.uid # 0 =>
         reply'.result = "PermissionDenied" /\ StoreUnchanged]_vars

\* C6, amended: a Publish or Unpublish of a caller whose uid is not 0 never
\* succeeds and changes nothing; it returns PermissionDenied when the bus
\* tells the uid, and the error of that lookup when it does not.
C6_NotRootChangesNothing ==
    [][/\ PublishStep /\ reply'.req.uid # 0 =>
              /\ StoreUnchanged
              /\ \A out \in PublishOutcomes :
                     Publish(reply'.req.uid, reply'.req.attrs, reply'.req.blob, out) =>
                         reply'.result =
                             IF out = "bus" THEN "Failed" ELSE "PermissionDenied"
       /\ UnpublishStep /\ reply'.req.uid # 0 =>
              /\ StoreUnchanged
              /\ \A out \in UnpublishOutcomes :
                     Unpublish(reply'.req.uid, reply'.req.hash, out) =>
                         reply'.result =
                             IF out = "bus" THEN "Failed" ELSE "PermissionDenied"]_vars

\* uid 1000 asked to unpublish an item that is in the store and was refused
C6_Witness ==
    /\ reply.op = "Unpublish" /\ reply.req.uid = 1000
    /\ reply.result = "PermissionDenied"
    /\ reply.req.hash \in DOMAIN items

\* C7 as stated, for calls that meet no failure of the bus, the handle or
\* the stream: a Publish by root of bytes whose item is in the store returns
\* AlreadyExists and leaves the item and its file as they are.
C7_SecondPublishExists ==
    [][(/\ PublishStep /\ Sha256(reply'.req.blob) \in DOMAIN items
        /\ Publish(0, reply'.req.attrs, reply'.req.blob, "none")) =>
            reply'.result = "Exists" /\ StoreUnchanged]_vars

\* C7, amended: a Publish of bytes whose item is in the store never succeeds
\* and leaves the store, the files and the advertisement as they are; it
\* returns AlreadyExists when the caller is root, the basename has no "/",
\* share_count is below share_limit and the bus, the handle and the stream
\* do not fail, and the error of the first of these checks otherwise.
C7_SecondPublishRefused ==
    [][PublishStep /\ Sha256(reply'.req.blob) \in DOMAIN items =>
         LET uid == reply'.req.uid
             a == reply'.req.attrs
         IN  /\ StoreUnchanged
             /\ reply'.result \in {"Exists", "PermissionDenied", "Failed",
                                   "InvalidArgs", "InvalidData"}
             /\ (/\ uid = 0
                 /\ a.basename # BasenameBad
                 /\ a.share_count < a.share_limit
                 /\ Publish(uid, a, reply'.req.blob, "none")) =>
                    reply'.result = "Exists"
             /\ reply'.result = "Exists" =>
                    /\ uid = 0
                    /\ a.basename # BasenameBad
                    /\ a.share_count < a.share_limit]_vars

\* the bytes of the item "a" were published again as "b" and refused
C7_Witness ==
    /\ reply.op = "Publish" /\ reply.result = "Exists"
    /\ reply.req.attrs.basename = BasenameB /\ reply.req.blob = <<1>>
    /\ H1 \in DOMAIN items /\ items[H1].basename = BasenameA

\* C8: an item with the DISABLED flag is in the store, none of the
\* advertised subtypes is its own, and a GET for its hash from a loopback or
\* a non-loopback peer is answered 423 and leaves the store as it is.
C8_DisabledItem ==
    [][/\ \A hash \in DOMAIN items' :
              PASSIM_ITEM_FLAG_DISABLED \in items'[hash].flags =>
                  /\ items'[hash] \in GetItems'
                  /\ Subtype(hash) \notin Advertised'
       /\ (/\ HttpStep /\ reply'.req.method = "GET" /\ reply'.req.remote # NULL
           /\ reply'.req.path \notin {"/", "/favicon.ico", "/style.css"}
           /\ QueryHash(reply'.req.request) \in DOMAIN items
           /\ PASSIM_ITEM_FLAG_DISABLED \in items[QueryHash(reply'.req.request)].flags)
              => reply'.code = 423 /\ reply'.kind = "error" /\ items' = items]_vars

C10_AdvertisedArePresent ==
    pc = "loop" =>
        \A subtype \in Advertised :
            \E hash \in DOMAIN items :
                /\ subtype = Subtype(hash)
                /\ PASSIM_ITEM_FLAG_DISABLED \notin items[hash].flags

\* C11: every loopback GET with a well-formed sha256 that names no local
\* item is eventually answered, whatever the discovery daemon sends or does
\* not send, and answered once: the answer ends the wait of that request,
\* and it is a redirect when the lookup gave an address and 404 otherwise.
C11_EventuallyAnsweredOnce ==
    /\ (Context(ReqH2) \in lookups) ~> (reply.op = "find" /\ reply.ctx = Context(ReqH2))
    /\ [][reply'.op = "find" /\ lookups' # lookups =>
             /\ reply'.ctx \in lookups /\ lookups' = lookups \ {reply'.ctx}
             /\ reply'.kind = "redirect" \/ reply'.code = 404]_vars

\* the first segment of the path of a request URL: what follows the leading
\* "/" up to the next "/"
FirstPathSegment(path) ==
    LET rest == SubSeq(path, 2, Len(path))
        stops == {i \in 1..Len(rest) : CharAt(rest, i) = "/"}
    IN  IF stops = {} THEN rest
        ELSE SubSeq(rest, 1, (CHOOSE i \in stops : \A j \in stops : i <= j) - 1)

\* C12: the Location of a redirect sent for a loopback miss is
\* https://{addr}/{basename}?sha256={hash}, with addr a member of the list the
\* lookup returned, hash the requested hash and basename the first path
\* segment of the request URL.
C12_LocationOfRedirect ==
    reply.op = "find" /\ reply.kind = "redirect" =>
        \E i \in 1..Len(reply.addresses) :
            reply.location = "https://" \o reply.addresses[i] \o "/"
                                 \o FirstPathSegment(reply.ctx.msg.path)
                                 \o "?sha256=" \o QueryHash(reply.ctx.msg.request)

\* C13: every redirect sent for a loopback miss carries the status 303.
C13_RedirectIs303 ==
    reply.op = "find" /\ reply.kind = "redirect" => reply.code = 303

\* C14: a candidate that could not be resolved does not fail the lookup: a
\* lookup that is resolving its candidates ends with the error only when no
\* candidate is left to try and no address was collected.
C14_FailureOnlyAfterAllTried ==
    [][\A ctx \in DOMAIN find :
           /\ find[ctx].op = "resolver" /\ ctx \notin DOMAIN find'
           /\ reply'.op = "find" /\ reply'.kind = "error"
           => find[ctx].items = <<>> /\ find[ctx].addresses = <<>>]_vars

\* the buffered signals of a resolver that are of its own object path
OwnBuffered(h) == SelectSeq(h.signals, LAMBDA signal : signal.object_path = h.object_path)

\* C15: a Found or Failure of the resolver's own object path that came in
\* before the reply of Start is not lost: when Start has succeeded the
\* buffered signal is replayed, a Found leaves the resolver with the address
\* and its handle freed, a Failure ends the resolve with the error, and the
\* reply of the Free then completes the resolve with the address and leaves
\* nothing of this resolver behind.
C15_BufferedSignalReplayed ==
    [][\A ctx \in DOMAIN find :
           /\ ResolverStartCb(ctx, TRUE) /\ OwnBuffered(find[ctx]) # <<>> =>
                  IF Head(OwnBuffered(find[ctx])).signal_name = "Found"
                  THEN /\ ctx \in DOMAIN find'
                       /\ find'[ctx].address # NULL
                       /\ find'[ctx].free = 1
                  ELSE reply'.op = "find" /\ reply'.kind = "error"
           /\ ResolverFreeCb(ctx, TRUE) /\ find[ctx].address # NULL =>
                  /\ \/ ctx \in DOMAIN find' /\ HasAddress(find'[ctx].addresses, find[ctx].address)
                     \/ reply'.op = "find" /\ reply'.kind = "redirect"
                        /\ HasAddress(reply'.addresses, find[ctx].address)
                  /\ stale' = stale]_vars

\* an entry carries the LOCAL flag: it is of this host
IsLocal(service) == AVAHI_LOOKUP_RESULT_LOCAL \in service.flags

\* C16: a browse ends successfully only with AllForNow received, and it
\* hands on the ItemNew entries received without the LOCAL flag, in the order
\* they came; CacheExhausted changes nothing; a Failure signal fails the
\* browse; no LOCAL entry is resolved or becomes the target of a redirect.
C16_BrowseResult ==
    [][/\ \A ctx \in DOMAIN find :
              /\ \A signal \in BrowserSignals :
                     BrowserSignalCb(ctx, signal) =>
                         CASE signal.signal_name = "ItemNew" ->
                                  /\ ctx \in DOMAIN find'
                                  /\ find'[ctx].op = "browser"
                                  /\ find'[ctx].items =
                                         IF IsLocal(signal.service) THEN find[ctx].items
                                         ELSE find[ctx].items \o <<signal.service>>
                           [] signal.signal_name = "CacheExhausted" -> find' = find
                           [] signal.signal_name = "Failure" ->
                                  reply'.op = "find" /\ reply'.kind = "error"
                           [] signal.signal_name = "AllForNow" ->
                                  /\ ctx \in DOMAIN find'
                                  /\ find'[ctx].op = "browser"
                                  /\ find'[ctx].items = find[ctx].items
              /\ find[ctx].op = "browser" /\ ctx \in DOMAIN find' /\ find'[ctx].op = "resolver" =>
                     /\ find[ctx].free > 0
                     /\ find[ctx].items = <<find'[ctx].service>> \o find'[ctx].items
       /\ \A ctx \in DOMAIN find' :
              /\ ~IsLocal(find'[ctx].service)
              /\ \A i \in 1..Len(find'[ctx].items) : ~IsLocal(find'[ctx].items[i])
              /\ ~HasAddress(find'[ctx].addresses, FoundAddress(HostOf(Self), Port))
       /\ reply'.op = "find" /\ reply'.kind = "redirect" =>
              ~HasAddress(reply'.addresses, FoundAddress(HostOf(Self), Port))]_vars

\* a browse that got the entries of two other hosts has ended with AllForNow
\* and the first entry is being resolved, the second is kept for later
C16_Witness ==
    /\ reply.op = "avahi" /\ reply.cb = "browser_free_cb"
    /\ \E ctx \in DOMAIN find :
           /\ find[ctx].op = "resolver"
           /\ find[ctx].service = Peer1 /\ find[ctx].items = <<Peer2>>

\* C17: the handle of every browser and resolver is released with a Free
\* call when its operation ends: a lookup that holds the object path of a
\* browser or resolver gives it up (by returning, or by going on to the next
\* resolver) only with Free called on it.
C17_HandleFreed ==
    [][\A ctx \in DOMAIN find :
           /\ find[ctx].object_path # NULL
           /\ ctx \notin DOMAIN find' \/ find'[ctx].object_path = NULL
           /\ pc' = "loop"
           => find[ctx].free > 0]_vars

\* C19: a register on an unmetered network sends Reset, AddService, one
\* AddServiceSubtype for each item of the store that is not DISABLED, and
\* Commit, in this order and up to the call that fails; when it succeeds the
\* committed group holds the base service and exactly these subtypes, with
\* nothing of the group it found.
C19_RegisterCalls ==
    pc = "loop" /\ ~metered /\ status # PASSIM_STATUS_STARTING =>
        LET want == {Subtype(hash) : hash \in {h \in DOMAIN items :
                         PASSIM_ITEM_FLAG_DISABLED \notin items[h].flags}}
            last == 3 + Cardinality(want)
        IN  \A out \in RegOutcomes :
                LET r == passim_server_avahi_register(status, items, metered, eg, out)
                    n == Len(r.calls)
                IN  /\ n \in 1..last
                    /\ \A i \in 1..n :
                           /\ r.calls[i].method =
                                  IF i = 1 THEN "Reset"
                                  ELSE IF i = 2 THEN "AddService"
                                  ELSE IF i = last THEN "Commit" ELSE "AddServiceSubtype"
                           /\ i \in 3..(last - 1) =>
                                  /\ r.calls[i].subtype \in want
                                  /\ \A j \in 3..(i - 1) : r.calls[j].subtype # r.calls[i].subtype
                    /\ out = "none" => r.ok
                    /\ r.ok => /\ n = last
                               /\ r.eg.committed
                               /\ r.eg.subtypes = want

\* a Publish has just registered a store that holds a DISABLED item and
\* another one: the committed group holds the subtype of the other one only
C19_Witness ==
    /\ reply.op = "Publish" /\ status = PASSIM_STATUS_RUNNING /\ ~metered
    /\ \E h1 \in DOMAIN items, h2 \in DOMAIN items :
           /\ PASSIM_ITEM_FLAG_DISABLED \in items[h1].flags
           /\ PASSIM_ITEM_FLAG_DISABLED \notin items[h2].flags
           /\ eg.committed /\ eg.subtypes = {Subtype(h2)}

C20_StatusChanges ==
    [][status' # status =>
           <<status, status'>> \in
               {<<PASSIM_STATUS_STARTING, PASSIM_STATUS_LOADING>>,
                <<PASSIM_STATUS_LOADING, PASSIM_STATUS_RUNNING>>,
                <<PASSIM_STATUS_RUNNING, PASSIM_STATUS_DISABLED_METERED>>,
                <<PASSIM_STATUS_DISABLED_METERED, PASSIM_STATUS_RUNNING>>}]_vars

\* C21: a register that fails on an error of the discovery daemon leaves the
\* daemon running with a Status that is not RUNNING: the first register of
\* main() does not end the process, and a register that fails at a change of
\* the metered state leaves the daemon in its loop, not RUNNING.
C21_RegisterFailureKeepsRunning ==
    [][/\ pc = "listening" => pc' # "exited"
       /\ metered' # metered /\ reply'.op = "metered" /\ ~reply'.ok =>
              pc' = "loop" /\ status' # PASSIM_STATUS_RUNNING]_vars

\* C22: a step of the running daemon that changes the set of items emits one
\* Changed signal, and a step that leaves the items and the Status as they
\* are emits none.
C22_ChangedSignal ==
    [][pc = "loop" /\ pc' = "loop" =>
           /\ DOMAIN items' # DOMAIN items => ChangedSignals = 1
           /\ items' = items /\ status' = status => ChangedSignals = 0]_vars

\* C23: at most one rescan timer is pending, and it is the one of
\* sysconfpkg_rescan_id; every change notification restarts it; the rescan
\* runs only when RescanDelay ms have passed since the last notification,
\* and after it no timer is left: a burst of notifications gives one rescan,
\* which is followed by the register.
C23_RescanDebounced ==
    [][/\ Len(timeouts') <= 1
       /\ (sysconfpkg_rescan_id' # 0) <=> (timeouts' # <<>>)
       /\ SysconfpkgdirChangedCb => timeouts' = <<0>>
       /\ Len(timeouts') < Len(timeouts) /\ pc' = "loop" =>
              /\ timeouts = <<RescanDelay>> /\ timeouts' = <<>>
              /\ reply'.op = "rescan" /\ reply'.ok \in BOOLEAN]_vars

\* the rescan timer has fired after its delay: the contributed directory was
\* scanned, and no timer is pending
C23_Witness ==
    /\ reply.op = "rescan" /\ reply.scanned
    /\ timeouts = <<>> /\ sysconfpkg_rescan_id = 0

\* C24: a GET answered 200 from a local item adds exactly 1 to the
\* share_count of that item, for a loopback and for any other peer, and
\* changes the share_count of no other item; a request answered with another
\* status changes the share_count of no item.
C24_ShareCountOfServe ==
    [][HttpStep /\ reply'.kind \in {"item", "error", "index", "asset"} =>
         LET hash == QueryHash(reply'.req.request)
             served == reply'.kind = "item" /\ reply'.code = 200
         IN  \A h \in DOMAIN items \cap DOMAIN items' :
                items'[h].share_count =
                    IF served /\ h = hash THEN items[h].share_count + 1
                    ELSE items[h].share_count]_vars

\* C25: share_count counts the serves answered 200 to peers that are not
\* loopback: such a serve adds 1 to the share_count of the served item, and
\* every other request, a serve to a loopback peer included, leaves every
\* share_count as it was.
C25_CountsNonLoopbackServes ==
    [][HttpStep /\ reply'.kind \in {"item", "error", "index", "asset"} =>
         LET hash == QueryHash(reply'.req.request)
             counted == /\ reply'.kind = "item" /\ reply'.code = 200
                        /\ NonLoopback(reply'.req)
         IN  \A h \in DOMAIN items \cap DOMAIN items' :
                items'[h].share_count =
                    items[h].share_count + (IF counted /\ h = hash THEN 1 ELSE 0)]_vars

\* C26: when the backing file of a local item that is not DISABLED cannot be
\* mapped or read while it is served, the request is answered 404 or 500 and
\* the item is gone from the store after the request.
C26_FailedServeEvicts ==
    [][HttpStep /\ reply'.kind = "item" /\ reply'.code # 200 =>
         /\ reply'.code \in {404, 500}
         /\ QueryHash(reply'.req.request) \notin DOMAIN items']_vars

\* C27: an item published with NEXT_REBOOT is DISABLED when Publish returns,
\* and the item of its hash is DISABLED as long as the daemon runs and holds
\* it; the startup scan of the owned directory loads a file whose stored
\* boot token is the current one DISABLED, and a file whose stored boot
\* token is another one without DISABLED.
C27_NextRebootDisabled ==
    [][/\ PublishStep /\ reply'.result \in {"ok", "AvahiError"}
          /\ PASSIM_ITEM_FLAG_NEXT_REBOOT \in reply'.req.attrs.flags =>
              passim_item_has_flag(items'[Sha256(reply'.req.blob)], PASSIM_ITEM_FLAG_DISABLED)
       /\ pc = "loop" /\ pc' = "loop" =>
              \A h \in DOMAIN items \cap DOMAIN items' :
                  passim_item_has_flag(items[h], PASSIM_ITEM_FLAG_NEXT_REBOOT) =>
                      passim_item_has_flag(items'[h], PASSIM_ITEM_FLAG_DISABLED)
       /\ pc = "main" /\ pc' = "listening" =>
              \A p \in DirFiles(files, "data") :
                  LET h == Sha256(files[p].bytes) IN
                  /\ h \in DOMAIN items'
                  /\ files[p].boot_time = BootTimeNow =>
                         passim_item_has_flag(items'[h], PASSIM_ITEM_FLAG_DISABLED)
                  /\ files[p].boot_time = BootTimeOld =>
                         ~passim_item_has_flag(items'[h], PASSIM_ITEM_FLAG_DISABLED)]_vars

\* C28: an item of a contributed file has max_age G_MAXUINT32, share_limit
\* G_MAXUINT32 and no cmdline; a GET never removes an item whose share_limit
\* is G_MAXUINT32, whatever its share_count, and the age sweep never removes
\* an item whose max_age is G_MAXUINT32.
C28_UnlimitedNeverDestroyed ==
    [][/\ \A h \in DOMAIN items' :
              items'[h].file.dir = "pkg" =>
                  /\ items'[h].max_age = G_MAXUINT32
                  /\ items'[h].share_limit = G_MAXUINT32
                  /\ items'[h].cmdline = NULL
       /\ HttpStep =>
              \A h \in DOMAIN items :
                  items[h].share_limit = G_MAXUINT32 => h \in DOMAIN items'
       /\ SweepStep =>
              \A h \in DOMAIN items :
                  items[h].max_age = G_MAXUINT32 => h \in DOMAIN items']_vars

\* C29 as stated: an Unpublish by uid 0 of a hash that is not in the store
\* returns NotFound and changes nothing; an Unpublish that returns success
\* leaves the item out of the store, its file deleted and its hash not
\* advertised, and the hash comes back only with a new item.
C29_UnpublishNotFound ==
    [][/\ UnpublishStep /\ reply'.req.uid = 0 =>
              /\ reply'.req.hash \notin DOMAIN items =>
                     reply'.result = "NotFound" /\ StoreUnchanged
              /\ reply'.result = "ok" =>
                     /\ reply'.req.hash \in DOMAIN items
                     /\ reply'.req.hash \notin DOMAIN items'
                     /\ items[reply'.req.hash].file \notin DOMAIN files'
                     /\ Subtype(reply'.req.hash) \notin Advertised'
       /\ \A h \in DOMAIN items' \ DOMAIN items :
              PublishStep \/ reply'.op = "rescan" \/ pc = "main"]_vars

\* C29, amended: an Unpublish by uid 0 of a hash that is not in the store
\* changes nothing and returns NotFound when the bus tells the uid of the
\* caller, and the error of that lookup when it does not; an Unpublish that
\* returns success leaves the item out of the store, its file deleted and
\* its hash not advertised, and the hash comes back only with a new item.
C29_UnpublishRemoves ==
    [][/\ UnpublishStep /\ reply'.req.uid = 0 =>
              /\ reply'.req.hash \notin DOMAIN items =>
                     /\ StoreUnchanged
                     /\ \A out \in UnpublishOutcomes :
                            Unpublish(0, reply'.req.hash, out) =>
                                reply'.result =
                                    IF out = "bus" THEN "Failed" ELSE "NotFound"
              /\ reply'.result = "ok" =>
                     /\ reply'.req.hash \in DOMAIN items
                     /\ reply'.req.hash \notin DOMAIN items'
                     /\ items[reply'.req.hash].file \notin DOMAIN files'
                     /\ Subtype(reply'.req.hash) \notin Advertised'
       /\ \A h \in DOMAIN items' \ DOMAIN items :
              PublishStep \/ reply'.op = "rescan" \/ pc = "main"]_vars

\* root unpublished an item that was advertised: the call succeeded, and the
\* item, its file and its subtype are gone
C29_Witness ==
    /\ reply.op = "Unpublish" /\ reply.req.uid = 0 /\ reply.result = "ok"
    /\ reply.req.hash \notin DOMAIN items
    /\ DirFiles(files, "data") = {}
    /\ status = PASSIM_STATUS_RUNNING /\ eg.committed
    /\ Subtype(reply.req.hash) \notin Advertised

\* C30: whenever a Publish or a scan of the owned or of the contributed
\* directory puts an item into the store, the hash of the item, which is its
\* key in the store, is the SHA-256 of the bytes of its backing file.
C30_HashIsDigestOfFile ==
    [][\A h \in DOMAIN items' :
           LET item == items'[h]
               loaded == \/ h \notin DOMAIN items
                         \/ items[h].file # item.file
                         \/ reply'.op = "rescan" /\ reply' # reply /\ item.file.dir = "pkg"
           IN  loaded /\ item.file \in DOMAIN files' =>
                   /\ item.hash = h
                   /\ h = Sha256(files'[item.file].bytes)]_vars

\* the string is HashLen characters, each a hexadecimal digit
IsHexHash(hash) ==
    /\ Len(hash) = HashLen
    /\ \A i \in 1..Len(hash) : \E k \in DOMAIN HexChars : CharAt(hash, i) = HexChars[k]

\* C31: a GET of a peer with an address, for a path that is not "/",
\* "/favicon.ico" or "/style.css", is answered 400 when the query has no
\* sha256= pair and 406 when the sha256 value is not 64 hexadecimal
\* characters; in both cases the store is not changed and no lookup starts.
C31_MalformedHash ==
    [][(/\ HttpStep
        /\ reply'.req.method = "GET" /\ reply'.req.remote # NULL
        /\ reply'.req.path \notin {"/", "/favicon.ico", "/style.css"}) =>
            LET hash == QueryHash(reply'.req.request) IN
            /\ ~reply'.req.has_query \/ hash = NULL =>
                   /\ reply'.kind = "error" /\ reply'.code = 400
                   /\ StoreUnchanged /\ lookups' = lookups
            /\ reply'.req.has_query /\ hash # NULL /\ ~IsHexHash(hash) =>
                   /\ reply'.kind = "error" /\ reply'.code = 406
                   /\ StoreUnchanged /\ lookups' = lookups]_vars

\* C32 as stated: a Publish whose basename contains "/" returns the invalid
\* arguments error and changes neither the store nor the files.
C32_SlashIsInvalidArgs ==
    [][PublishStep /\ ContainsSlash(reply'.req.attrs.basename) =>
         reply'.result = "InvalidArgs" /\ StoreUnchanged]_vars

\* C32, amended: a Publish whose basename contains "/" never succeeds and
\* changes neither the store nor the files; it returns the invalid arguments
\* error when the caller is root and the bus tells its uid and its command
\* line, and the error of the first of these checks otherwise.
C32_SlashRefused ==
    [][PublishStep /\ ContainsSlash(reply'.req.attrs.basename) =>
         /\ StoreUnchanged
         /\ \A out \in PublishOutcomes :
                Publish(reply'.req.uid, reply'.req.attrs, reply'.req.blob, out) =>
                    reply'.result =
                        IF out = "bus" THEN "Failed"
                        ELSE IF reply'.req.uid # 0 THEN "PermissionDenied"
                        ELSE IF out = "get_cmdline" THEN "Failed"
                        ELSE "InvalidArgs"]_vars

\* root published "a/b" while the store held an item, and was refused with
\* the invalid arguments error
C32_Witness ==
    /\ reply.op = "Publish" /\ reply.req.uid = 0
    /\ reply.req.attrs.basename = BasenameBad
    /\ reply.result = "InvalidArgs"
    /\ DOMAIN items # {}

\* C33: a request whose method is not GET is answered 403 with an error
\* page, whatever its path, its query and its peer; it leaves the store, the
\* files and the advertisement as they are and starts no lookup.
C33_OnlyGet ==
    [][HttpStep /\ reply'.req.method # "GET" =>
         /\ reply'.kind = "error" /\ reply'.code = 403
         /\ StoreUnchanged
         /\ lookups' = lookups /\ find' = find]_vars

\* a POST that names an item of the store which is not DISABLED was
\* answered 403
C33_Witness ==
    /\ reply.op = "http" /\ reply.req = ReqPost /\ reply.code = 403
    /\ H1 \in DOMAIN items
    /\ ~passim_item_has_flag(items[H1], PASSIM_ITEM_FLAG_DISABLED)

\* C34: the daemon ends only when it loses its bus name, when the HTTPS
\* port cannot be bound at startup, on SIGINT and on the timed exit; no other
\* failure ends it.
C34_ExitCauses ==
    [][pc # "exited" /\ pc' = "exited" =>
         \/ SigintCb
         \/ reply'.op = "exit" /\ reply'.cause \in {"name_lost", "timed_exit", "listen"}]_vars

\* C35: one age sweep removes, with their files, exactly the items that are
\* older than their max_age and whose max_age is not G_MAXUINT32; every
\* other item, an item as old as its max_age included, stays as it is, with
\* its file.
C35_SweepDestroysExactly ==
    [][SweepStep =>
         \A h \in DOMAIN items :
             IF /\ items[h].max_age # G_MAXUINT32
                /\ passim_item_get_age(items[h], now) > items[h].max_age
             THEN /\ h \notin DOMAIN items'
                  /\ items[h].file \notin DOMAIN files'
             ELSE /\ h \in DOMAIN items' /\ items'[h] = items[h]
                  /\ items[h].file \in DOMAIN files =>
                         /\ items[h].file \in DOMAIN files'
                         /\ files'[items[h].file] = files[items[h].file]]_vars

\* C36: a Publish by root of a stream of exactly MaxItemSize bytes, new to
\* the store and met by no failure, succeeds; a Publish of a longer stream
\* fails with the invalid data error whose message tells the size limit,
\* and changes neither the store nor the files.
C36_SizeLimit ==
    [][(/\ PublishStep /\ reply'.req.uid = 0
        /\ Publish(0, reply'.req.attrs, reply'.req.blob, "none")) =>
            /\ (/\ Len(reply'.req.blob) = MaxItemSize
                /\ Sha256(reply'.req.blob) \notin DOMAIN items
                /\ HashedFilename(Sha256(reply'.req.blob), reply'.req.attrs.basename)
                       \notin DOMAIN files) =>
                    /\ reply'.result = "ok"
                    /\ Sha256(reply'.req.blob) \in DOMAIN items'
            /\ Len(reply'.req.blob) > MaxItemSize =>
                    /\ reply'.result = "InvalidData"
                    /\ reply'.message = SizeLimitMessage
                    /\ StoreUnchanged]_vars

\* C37: a Publish or an Unpublish that returns an error leaves the items and
\* the files as they were before the call.
C37_FailedCallChangesNothing ==
    [][(PublishStep \/ UnpublishStep) /\ reply'.result # "ok" =>
         items' = items /\ files' = files]_vars


\* C38: in every interleaving of the reply of Start, the signals that reach
\* the handler of the proxy, the signals the fallback subscription buffered
\* and the reply of Free, no browse and no resolve has a reply due for a
\* GTask that was completed and released, and none has more than one Free
\* call out for its handle.
C38_TaskCompletedOnce ==
    /\ ~stale
    /\ \A ctx \in DOMAIN find : find[ctx].free <= 1


\* C39: the file a successful Publish wrote is loaded by the scan of the next
\* startup without an error, as an item with the hash, the basename, the
\* max_age, the share_limit and the cmdline of the published item, also when
\* max_age or share_limit is G_MAXUINT32.
C39_PublishedItemRescans ==
    [][PublishStep /\ reply'.result = "ok" =>
           \A hash \in DOMAIN items' \ DOMAIN items :
               LET item == items'[hash]
                   r == passim_server_libdir_add(files', item.file, TRUE)
               IN  /\ r.ok
                   /\ r.item.hash = item.hash
                   /\ r.item.basename = item.basename
                   /\ r.item.max_age = item.max_age
                   /\ r.item.share_limit = item.share_limit
                   /\ r.item.cmdline = item.cmdline]_vars


\* C40: a rescan of the contributed directory leaves every item that is not
\* a contributed one (one that Publish or the scan of the owned directory
\* added) in the store as it was: same max_age, share_limit, share_count,
\* cmdline, flags and file, also when a contributed file has its hash.
C40_RescanKeepsOwnedItems ==
    [][SysconfpkgdirTimeoutCb =>
           \A hash \in DOMAIN items :
               ~IsSysconfpkgItem(items[hash]) =>
                   /\ hash \in DOMAIN items'
                   /\ items'[hash] = items[hash]]_vars

================================================================================
